---- MODULE Spec2Model ----
(***************************************************************************)
(* A model of SCAN (keb77/scan): the expression language of scan_core       *)
(* (types, values, type check, smart constructors, compiled evaluator),    *)
(* the channel system the expressions run in, the command-line driver, and *)
(* the XML front ends (the event loops of the three parsers).              *)
(*                                                                         *)
(* Floats are modelled by the integer-valued doubles: Float n stands for   *)
(* the f64 n.0.  Sums and products of such values are exact in f64 far     *)
(* beyond the operands used here, and OrderedFloat equates -0.0 and 0.0,   *)
(* so the integer n is a faithful name for the value.                      *)
(***************************************************************************)
EXTENDS Integers, Sequences, FiniteSets, TLC

VARIABLES
    ty,             \* SpecType: the Type under construction
    dv,             \* SpecType: the last result of Type::default_value
    expr,           \* SpecExpr / SpecCons: the Expression under construction
    env,            \* the resolver handed to eval: variable -> Val
    res,            \* the last result of FnExpression::eval (value or panic, resolver calls)
    out,            \* SpecCons: the last smart constructor applied, its arguments and result
    overflowChecks, \* the build: TRUE = overflow checks on (debug), FALSE = wrapping (release)
    model,          \* SpecCS: the model file handed to the command line
    cs,             \* SpecCS: the configuration of the channel system built from it
    drv,            \* SpecCS: the driver: its command, its position, its exit
    xml             \* SpecXml: an XML front end reading a file, event by event

vars == <<ty, dv, expr, env, res, out, overflowChecks, model, cs, drv, xml>>

(***************************************************************************)
(* Bounds of the model.                                                    *)
(***************************************************************************)
MaxTypeDepth == 3
MaxSize == 3
MaxConsSize == 3

(***************************************************************************)
(* grammar.rs: Type                                                        *)
(***************************************************************************)
Boolean == [k |-> "Boolean"]
Integer == [k |-> "Integer"]
Float == [k |-> "Float"]
Product(ts) == [k |-> "Product", ts |-> ts]
List(t) == [k |-> "List", t |-> t]

(***************************************************************************)
(* grammar.rs: Val                                                         *)
(***************************************************************************)
VBoolean(b) == [k |-> "Boolean", b |-> b]
VInteger(i) == [k |-> "Integer", i |-> i]
VFloat(f) == [k |-> "Float", f |-> f]
VTuple(vs) == [k |-> "Tuple", vs |-> vs]
VList(t, vs) == [k |-> "List", t |-> t, vs |-> vs]

\* A panic: the evaluation aborts and returns no value.  line is the line of
\* grammar.rs that panics, msg the message.
Panic(line, msg) == [k |-> "Panic", line |-> line, msg |-> msg]
IsPanic(v) == v.k = "Panic"

RECURSIVE DefaultValue(_)
DefaultValueNoElemType(t) ==
    CASE t.k = "Boolean" -> VBoolean(FALSE)
      [] t.k = "Integer" -> VInteger(0)
      [] t.k = "Float" -> VFloat(0)
      [] t.k = "Product" -> VTuple([i \in 1..Len(t.ts) |-> DefaultValue(t.ts[i])])
      [] t.k = "List" -> VList(Boolean, <<>>)

\* Type::default_value
DefaultValue(t) ==
    CASE t.k = "Boolean" -> VBoolean(FALSE)
      [] t.k = "Integer" -> VInteger(0)
      [] t.k = "Float" -> VFloat(0)
      [] t.k = "Product" -> VTuple([i \in 1..Len(t.ts) |-> DefaultValue(t.ts[i])])
      [] t.k = "List" -> VList(t.t, <<>>)

\* Val::type
RECURSIVE ValType(_)
ValType(v) ==
    CASE v.k = "Boolean" -> Boolean
      [] v.k = "Integer" -> Integer
      [] v.k = "Tuple" -> Product([i \in 1..Len(v.vs) |-> ValType(v.vs[i])])
      [] v.k = "List" -> List(v.t)
      [] v.k = "Float" -> Float

Max(S) == CHOOSE m \in S : \A n \in S : n <= m

\* Nesting depth of a type (a measure used to bound the types drawn).
RECURSIVE TypeDepth(_)
TypeDepth(t) ==
    CASE t.k = "Product" -> 1 + Max({0} \cup {TypeDepth(t.ts[i]) : i \in 1..Len(t.ts)})
      [] t.k = "List" -> 1 + TypeDepth(t.t)
      [] OTHER -> 0

BaseTypes == {Boolean, Integer, Float}

(***************************************************************************)
(* grammar.rs: Integer = i32.  Arithmetic on i32 overflows outside          *)
(* I32Min..I32Max: a build with overflow checks panics, a build without    *)
(* wraps modulo 2^32.  Division and remainder overflow always panic.       *)
(***************************************************************************)
I32Max == 2147483647
I32Min == (-I32Max) - 1

AddFits(a, b) == IF b >= 0 THEN a <= I32Max - b ELSE a >= I32Min - b

\* a + b modulo 2^32, computed without leaving the 32-bit range
WrapAdd(a, b) ==
    IF AddFits(a, b) THEN a + b
    ELSE IF b >= 0 THEN ((a - I32Max) - 1) + ((b - I32Max) - 1)
    ELSE ((a + I32Max) + 1) + ((b + I32Max) + 1)

MulFits(a, b) ==
    CASE a = 0 \/ b = 0 -> TRUE
      [] a = -1 -> b # I32Min
      [] b = -1 -> a # I32Min
      [] a > 0 /\ b > 0 -> a <= I32Max \div b
      [] a > 0 /\ b < 0 -> b >= (I32Min + (a - 1)) \div a
      [] a < 0 /\ b > 0 -> a >= (I32Min + (b - 1)) \div b
      [] OTHER -> a # I32Min /\ b # I32Min /\ (-a) <= I32Max \div (-b)

WrapNeg(a) == IF a = I32Min THEN I32Min ELSE -a

\* a * n modulo 2^32 for n >= 0, by doubling
RECURSIVE WrapMulNat(_, _)
WrapMulNat(a, n) ==
    IF n = 0 THEN 0
    ELSE LET h == WrapMulNat(a, n \div 2)
             d == WrapAdd(h, h)
         IN  IF n % 2 = 1 THEN WrapAdd(d, a) ELSE d

WrapMul(a, b) ==
    IF MulFits(a, b) THEN a * b
    ELSE IF b = I32Min THEN (IF a % 2 = 1 THEN I32Min ELSE 0)
    ELSE IF b < 0 THEN WrapNeg(WrapMulNat(a, -b))
    ELSE WrapMulNat(a, b)

\* acc + i on i32 (grammar.rs:623)
I32Add(a, b) ==
    IF AddFits(a, b) THEN VInteger(a + b)
    ELSE IF overflowChecks THEN Panic(623, "attempt to add with overflow")
    ELSE VInteger(WrapAdd(a, b))

\* acc * i on i32 (grammar.rs:641)
I32Mul(a, b) ==
    IF MulFits(a, b) THEN VInteger(a * b)
    ELSE IF overflowChecks THEN Panic(641, "attempt to multiply with overflow")
    ELSE VInteger(WrapMul(a, b))

\* -i on i32 (grammar.rs:613)
I32Neg(a) ==
    IF a # I32Min THEN VInteger(-a)
    ELSE IF overflowChecks THEN Panic(613, "attempt to negate with overflow")
    ELSE VInteger(I32Min)

\* The remainder of the floored division by |b|, never negative
I32RemFloored(a, b) ==
    IF b = 0 THEN Panic(776, "attempt to calculate the remainder with a divisor of zero")
    ELSE IF b = I32Min THEN VInteger(a)
    ELSE VInteger(a % (IF b < 0 THEN -b ELSE b))

\* lhs % rhs on i32 (grammar.rs:776): the remainder of the truncated division
I32Rem(a, b) ==
    IF b = 0 THEN Panic(776, "attempt to calculate the remainder with a divisor of zero")
    ELSE IF a = I32Min /\ b = -1 THEN Panic(776, "attempt to calculate the remainder with overflow")
    ELSE IF b = I32Min THEN VInteger(IF a = I32Min THEN 0 ELSE a)
    ELSE LET m == IF b < 0 THEN -b ELSE b
             fm == a % m
         IN  VInteger(IF a < 0 /\ fm # 0 THEN fm - m ELSE fm)

(***************************************************************************)
(* grammar.rs: Expression                                                  *)
(***************************************************************************)
Const(v) == [op |-> "Const", val |-> v]
Var(v, t) == [op |-> "Var", v |-> v, t |-> t]
Component(index, e) == [op |-> "Component", index |-> index, e |-> e]
\* Tuple, And, Or, Sum, Mult
Nary(op, es) == [op |-> op, es |-> es]
\* Not, Opposite, Truncate, Len
Unary(op, e) == [op |-> op, e |-> e]
\* Implies, Mod, Equal, Greater, GreaterEq, Less, LessEq, Append
Binary(op, l, r) == [op |-> op, l |-> l, r |-> r]

NaryOps == {"Tuple", "And", "Or", "Sum", "Mult"}
UnaryOps == {"Not", "Opposite", "Truncate", "Len"}
BinaryOps == {"Implies", "Mod", "Equal", "Greater", "GreaterEq", "Less", "LessEq", "Append"}

\* Result<Type, TypeError>
Ok(t) == [ok |-> TRUE, t |-> t]
Err(e) == [ok |-> FALSE, err |-> e]

IsNumeric(t) == t.k \in {"Integer", "Float"}

\* Sum, Mult over operands of Integer and Float alike typed Integer
NumericTypeInteger(ts) ==
    IF \A i \in 1..Len(ts) : IsNumeric(ts[i]) THEN Ok(Integer)
    ELSE Err("TypeMismatch")

\* Expression::type, Sum | Mult: the type for the types of the operands
NumericType(ts) ==
    IF \A i \in 1..Len(ts) : ts[i] = Integer THEN Ok(Integer)
    ELSE IF \A i \in 1..Len(ts) : IsNumeric(ts[i]) THEN Ok(Float)
    ELSE Err("TypeMismatch")

\* Equal, GreaterEq, LessEq accepting any two operands of one type
EqualTypeAny(t0, t1) == IF t0 = t1 THEN Ok(Boolean) ELSE Err("TypeMismatch")

\* Expression::type, Equal | GreaterEq | LessEq: the type for the types of the
\* two operands
EqualType(t0, t1) ==
    IF t0 \in {Integer, Boolean} /\ t0 = t1 THEN Ok(Boolean) ELSE Err("TypeMismatch")

RECURSIVE ExprType(_)
\* .map(|e| e.r#type()).collect::<Result<Vec<Type>, TypeError>>(): the first error, or all types
RECURSIVE TypesOf(_)
TypesOf(es) ==
    IF es = <<>> THEN Ok(<<>>)
    ELSE LET h == ExprType(Head(es))
         IN  IF ~h.ok THEN h
             ELSE LET rest == TypesOf(Tail(es))
                  IN  IF ~rest.ok THEN rest ELSE Ok(<<h.t>> \o rest.t)

\* Expression::type
ExprType(e) ==
    CASE e.op = "Const" -> Ok(ValType(e.val))
      [] e.op = "Tuple" ->
            LET ts == TypesOf(e.es) IN IF ts.ok THEN Ok(Product(ts.t)) ELSE ts
      [] e.op = "Var" -> Ok(e.t)
      [] e.op \in {"And", "Or"} ->
            LET ts == TypesOf(e.es)
            IN  IF ~ts.ok THEN ts
                ELSE IF \A i \in 1..Len(ts.t) : ts.t[i] = Boolean THEN Ok(Boolean)
                ELSE Err("TypeMismatch")
      [] e.op \in {"Implies"} ->
            LET t0 == ExprType(e.l)
            IN  IF ~t0.ok THEN t0
                ELSE IF t0.t # Boolean THEN Err("TypeMismatch")
                ELSE LET t1 == ExprType(e.r)
                     IN  IF ~t1.ok THEN t1
                         ELSE IF t1.t = Boolean THEN Ok(Boolean)
                         ELSE Err("TypeMismatch")
      [] e.op = "Not" ->
            LET t0 == ExprType(e.e)
            IN  IF ~t0.ok THEN t0
                ELSE IF t0.t = Boolean THEN Ok(Boolean) ELSE Err("TypeMismatch")
      [] e.op = "Opposite" ->
            LET t0 == ExprType(e.e)
            IN  IF ~t0.ok THEN t0
                ELSE IF IsNumeric(t0.t) THEN Ok(t0.t) ELSE Err("TypeMismatch")
      [] e.op \in {"Sum", "Mult"} ->
            LET ts == TypesOf(e.es)
            IN  IF ~ts.ok THEN ts ELSE NumericType(ts.t)
      [] e.op \in {"Equal", "GreaterEq", "LessEq"} ->
            LET t0 == ExprType(e.l)
            IN  IF ~t0.ok THEN t0
                ELSE LET t1 == ExprType(e.r)
                     IN  IF ~t1.ok THEN t1
                         ELSE EqualType(t0.t, t1.t)
      [] e.op \in {"Greater", "Less"} ->
            LET t0 == ExprType(e.l)
            IN  IF ~t0.ok THEN t0
                ELSE IF ~IsNumeric(t0.t) THEN Err("TypeMismatch")
                ELSE LET t1 == ExprType(e.r)
                     IN  IF ~t1.ok THEN t1
                         ELSE IF IsNumeric(t1.t) THEN Ok(Boolean)
                         ELSE Err("TypeMismatch")
      [] e.op = "Component" ->
            LET t0 == ExprType(e.e)
            IN  IF ~t0.ok THEN t0
                ELSE IF t0.t.k = "Product"
                     THEN IF e.index < Len(t0.t.ts) THEN Ok(t0.t.ts[e.index + 1])
                          ELSE Err("MissingComponent")
                ELSE Err("TypeMismatch")
      [] e.op = "Append" ->
            LET t0 == ExprType(e.l)
            IN  IF ~t0.ok THEN t0
                ELSE LET t1 == ExprType(e.r)
                     IN  IF ~t1.ok THEN t1
                         ELSE IF t0.t.k = "List"
                              THEN IF t1.t = t0.t.t THEN Ok(t0.t) ELSE Err("TypeMismatch")
                         ELSE Err("TypeMismatch")
      [] e.op = "Truncate" ->
            LET t0 == ExprType(e.e)
            IN  IF ~t0.ok THEN t0
                ELSE IF t0.t.k = "List" THEN Ok(t0.t) ELSE Err("TypeMismatch")
      [] e.op = "Len" ->
            LET t0 == ExprType(e.e)
            IN  IF ~t0.ok THEN t0
                ELSE IF t0.t.k = "List" THEN Ok(Integer) ELSE Err("TypeMismatch")
      [] e.op = "Mod" ->
            LET t0 == ExprType(e.l)
            IN  IF ~t0.ok THEN t0
                ELSE IF t0.t # Integer THEN Err("TypeMismatch")
                ELSE LET t1 == ExprType(e.r)
                     IN  IF ~t1.ok THEN t1
                         ELSE IF t1.t = Integer THEN Ok(Integer)
                         ELSE Err("TypeMismatch")

(***************************************************************************)
(* grammar.rs: the smart constructors of Expression.                       *)
(***************************************************************************)
\* for subformula in args { if let op(subs) = subformula { extend } else { push } }
\* Only the first argument is unwrapped
FlattenFirst(op, args) ==
    IF args = <<>> THEN <<>>
    ELSE (IF Head(args).op = op THEN Head(args).es ELSE <<Head(args)>>) \o Tail(args)

RECURSIVE Flatten(_, _)
Flatten(op, args) ==
    IF args = <<>> THEN <<>>
    ELSE (IF Head(args).op = op THEN Head(args).es ELSE <<Head(args)>>)
            \o Flatten(op, Tail(args))

\* and without the singleton case and without flattening
andNoFlatten(args) ==
    CASE Len(args) = 0 -> Const(VBoolean(TRUE))
      [] OTHER -> Nary("And", args)

\* Expression::and
and(args) ==
    CASE Len(args) = 0 -> Const(VBoolean(TRUE))
      [] Len(args) = 1 -> args[1]
      [] OTHER -> Nary("And", Flatten("And", args))

\* Expression::or
or(args) ==
    CASE Len(args) = 0 -> Const(VBoolean(FALSE))
      [] Len(args) = 1 -> args[1]
      [] OTHER -> Nary("Or", Flatten("Or", args))

\* Expression::component; args[index] panics when the tuple is too short
component(e, index) ==
    IF e.op = "Tuple"
    THEN IF index < Len(e.es) THEN e.es[index + 1]
         ELSE Panic(380, "index out of bounds")
    ELSE Component(index, e)

notNoCancel(e) == Unary("Not", e)

\* impl Not for Expression
not(e) == IF e.op = "Not" THEN e.e ELSE Unary("Not", e)

\* impl Neg for Expression
neg(e) == IF e.op = "Opposite" THEN e.e ELSE Unary("Opposite", e)

\* impl Add for Expression
add(lhs, rhs) == Nary("Sum", Flatten("Sum", <<lhs, rhs>>))

\* impl Mul for Expression
mul(lhs, rhs) == Nary("Mult", Flatten("Mult", <<lhs, rhs>>))

\* iter.reduce(|acc, e| acc + e)
RECURSIVE ReduceAdd(_, _)
ReduceAdd(acc, es) == IF es = <<>> THEN acc ELSE ReduceAdd(add(acc, Head(es)), Tail(es))

\* iter.reduce(|acc, e| acc * e)
RECURSIVE ReduceMul(_, _)
ReduceMul(acc, es) == IF es = <<>> THEN acc ELSE ReduceMul(mul(acc, Head(es)), Tail(es))

\* impl Sum for Expression
sum(es) == IF es = <<>> THEN Const(VInteger(0)) ELSE ReduceAdd(Head(es), Tail(es))

\* impl Product for Expression
product(es) == IF es = <<>> THEN Const(VInteger(1)) ELSE ReduceMul(Head(es), Tail(es))

(***************************************************************************)
(* grammar.rs: FnExpression.  eval returns a Val or panics; the resolver   *)
(* is a callback, so the calls made to it, in order, are part of what an   *)
(* evaluation does.  EvalRes(v, calls): v is the Val returned or the       *)
(* Panic that ended the evaluation, calls the resolver calls made.         *)
(***************************************************************************)
EvalRes(v, calls) == [v |-> v, calls |-> calls]

\* One step of the fold of Expression::Sum: the accumulator plus one operand value
SumStep(acc, x) ==
    CASE acc.k = "Integer" ->
            (CASE x.k = "Integer" -> I32Add(acc.i, x.i)
               [] x.k = "Float" -> VFloat(acc.i + x.f)
               [] OTHER -> Panic(625, "type mismatch"))
      [] acc.k = "Float" ->
            (CASE x.k = "Integer" -> VFloat(acc.f + x.i)
               [] x.k = "Float" -> VFloat(acc.f + x.f)
               [] OTHER -> Panic(630, "type mismatch"))
      [] OTHER -> Panic(632, "type mismatch")

\* One step of the fold of Expression::Mult: the accumulator times one operand value
MultStep(acc, x) ==
    CASE acc.k = "Integer" ->
            (CASE x.k = "Integer" -> I32Mul(acc.i, x.i)
               [] x.k = "Float" -> VFloat(acc.i * x.f)
               [] OTHER -> Panic(643, "type mismatch"))
      [] acc.k = "Float" ->
            (CASE x.k = "Integer" -> VFloat(acc.f * x.i)
               [] x.k = "Float" -> VFloat(acc.f * x.f)
               [] OTHER -> Panic(648, "type mismatch"))
      [] OTHER -> Panic(650, "type mismatch")

\* The value the fold of Expression::Sum starts from
SumInit == VInteger(0)
\* The value the fold of Expression::Mult starts from
MultInit == VInteger(0)

\* The numeric reading of a Val::Integer or Val::Float, for the comparisons
Num(v) == IF v.k = "Integer" THEN v.i ELSE v.f

\* Append whose element is pushed whatever its type
PushedUnchecked(list, element) == VList(list.t, Append(list.vs, element))

\* Expression::Append, the list and the element evaluated:
\* if element.r#type() == t { l.push(element) } else { panic! }
Pushed(list, element) ==
    IF ValType(element) = list.t THEN VList(list.t, Append(list.vs, element))
    ELSE Panic(737, "type mismatch")

RECURSIVE Eval(_, _)

\* Expression::Tuple: exprs.iter().map(|expr| expr.eval(vars)).collect()
RECURSIVE EvalTuple(_, _)
EvalTuple(es, R) ==
    IF es = <<>> THEN EvalRes(VTuple(<<>>), <<>>)
    ELSE LET h == Eval(Head(es), R)
         IN  IF IsPanic(h.v) THEN h
             ELSE LET rest == EvalTuple(Tail(es), R)
                  IN  IF IsPanic(rest.v) THEN EvalRes(rest.v, h.calls \o rest.calls)
                      ELSE EvalRes(VTuple(<<h.v>> \o rest.v.vs), h.calls \o rest.calls)

\* And without the early return: every child is evaluated
RECURSIVE EvalAndEager(_, _)
EvalAndEager(es, R) ==
    IF es = <<>> THEN EvalRes(VBoolean(TRUE), <<>>)
    ELSE LET h == Eval(Head(es), R)
             rest == EvalAndEager(Tail(es), R)
         IN  IF IsPanic(h.v) THEN h
             ELSE IF IsPanic(rest.v) THEN EvalRes(rest.v, h.calls \o rest.calls)
             ELSE IF h.v.k = "Boolean"
                  THEN EvalRes(VBoolean(h.v.b /\ rest.v.b), h.calls \o rest.calls)
             ELSE EvalRes(Panic(564, "type mismatch"), h.calls)

\* Expression::And: the loop over the children
RECURSIVE EvalAnd(_, _)
EvalAnd(es, R) ==
    IF es = <<>> THEN EvalRes(VBoolean(TRUE), <<>>)
    ELSE LET h == Eval(Head(es), R)
         IN  IF IsPanic(h.v) THEN h
             ELSE IF h.v.k = "Boolean"
                  THEN IF h.v.b
                       THEN LET rest == EvalAnd(Tail(es), R)
                            IN  EvalRes(rest.v, h.calls \o rest.calls)
                       ELSE EvalRes(VBoolean(FALSE), h.calls)
             ELSE EvalRes(Panic(564, "type mismatch"), h.calls)

\* Expression::Or: the loop over the children
RECURSIVE EvalOr(_, _)
EvalOr(es, R) ==
    IF es = <<>> THEN EvalRes(VBoolean(FALSE), <<>>)
    ELSE LET h == Eval(Head(es), R)
         IN  IF IsPanic(h.v) THEN h
             ELSE IF h.v.k = "Boolean"
                  THEN IF h.v.b
                       THEN EvalRes(VBoolean(TRUE), h.calls)
                       ELSE LET rest == EvalOr(Tail(es), R)
                            IN  EvalRes(rest.v, h.calls \o rest.calls)
             ELSE EvalRes(Panic(581, "type mismatch"), h.calls)

\* Expression::Sum: exprs.iter().fold(acc, ...)
RECURSIVE EvalSum(_, _, _)
EvalSum(acc, es, R) ==
    IF es = <<>> THEN EvalRes(acc, <<>>)
    ELSE LET h == Eval(Head(es), R)
         IN  IF IsPanic(h.v) THEN h
             ELSE LET step == SumStep(acc, h.v)
                  IN  IF IsPanic(step) THEN EvalRes(step, h.calls)
                      ELSE LET rest == EvalSum(step, Tail(es), R)
                           IN  EvalRes(rest.v, h.calls \o rest.calls)

\* Expression::Mult: exprs.iter().fold(acc, ...)
RECURSIVE EvalMult(_, _, _)
EvalMult(acc, es, R) ==
    IF es = <<>> THEN EvalRes(acc, <<>>)
    ELSE LET h == Eval(Head(es), R)
         IN  IF IsPanic(h.v) THEN h
             ELSE LET step == MultStep(acc, h.v)
                  IN  IF IsPanic(step) THEN EvalRes(step, h.calls)
                      ELSE LET rest == EvalMult(step, Tail(es), R)
                           IN  EvalRes(rest.v, h.calls \o rest.calls)

\* The right operand left alone when the left one is false
EvalBothLazy(l, r, R) ==
    IF Eval(l, R).v = VBoolean(FALSE)
    THEN [failed |-> FALSE, a |-> VBoolean(FALSE), b |-> VBoolean(FALSE), calls |-> Eval(l, R).calls]
    ELSE IF IsPanic(Eval(l, R).v) THEN [failed |-> TRUE, out |-> Eval(l, R)]
    ELSE IF IsPanic(Eval(r, R).v)
    THEN [failed |-> TRUE, out |-> EvalRes(Eval(r, R).v, Eval(l, R).calls \o Eval(r, R).calls)]
    ELSE [failed |-> FALSE, a |-> Eval(l, R).v, b |-> Eval(r, R).v,
          calls |-> Eval(l, R).calls \o Eval(r, R).calls]

\* (lhs.eval(vars), rhs.eval(vars)): both operands, left first, before any match
EvalBoth(l, r, R) ==
    LET a == Eval(l, R)
    IN  IF IsPanic(a.v) THEN [failed |-> TRUE, out |-> a]
        ELSE LET b == Eval(r, R)
             IN  IF IsPanic(b.v)
                 THEN [failed |-> TRUE, out |-> EvalRes(b.v, a.calls \o b.calls)]
                 ELSE [failed |-> FALSE, a |-> a.v, b |-> b.v, calls |-> a.calls \o b.calls]

\* Expression::Greater / Expression::Less: match lhs.eval(vars), then rhs.eval(vars)
EvalOrder(l, r, R, greater) ==
    LET a == Eval(l, R)
    IN  IF IsPanic(a.v) THEN a
        ELSE IF ~(a.v.k \in {"Integer", "Float"})
             THEN EvalRes(Panic(IF greater THEN 679 ELSE 710, "type mismatch"), a.calls)
        ELSE LET b == Eval(r, R)
                 calls == a.calls \o b.calls
             IN  IF IsPanic(b.v) THEN EvalRes(b.v, calls)
                 ELSE IF ~(b.v.k \in {"Integer", "Float"})
                      THEN EvalRes(Panic(IF a.v.k = "Integer"
                                         THEN (IF greater THEN 672 ELSE 703)
                                         ELSE (IF greater THEN 677 ELSE 708), "type mismatch"), calls)
                 ELSE EvalRes(VBoolean(IF greater THEN Num(a.v) > Num(b.v)
                                       ELSE Num(a.v) < Num(b.v)), calls)

\* FnExpression::from followed by FnExpression::eval
Eval(e, R) ==
    CASE e.op = "Const" -> EvalRes(e.val, <<>>)
      [] e.op = "Var" -> EvalRes(R[e.v], <<e.v>>)
      [] e.op = "Tuple" -> EvalTuple(e.es, R)
      [] e.op = "Component" ->
            LET a == Eval(e.e, R)
            IN  IF IsPanic(a.v) THEN a
                ELSE IF a.v.k = "Tuple"
                     THEN IF e.index < Len(a.v.vs) THEN EvalRes(a.v.vs[e.index + 1], a.calls)
                          ELSE EvalRes(Panic(547, "index out of bounds: the len is less than the index"), a.calls)
                ELSE EvalRes(Panic(549, "index out of bounds"), a.calls)
      [] e.op = "And" -> EvalAnd(e.es, R)
      [] e.op = "Or" -> EvalOr(e.es, R)
      [] e.op = "Implies" ->
            LET p == EvalBoth(e.l, e.r, R)
            IN  IF p.failed THEN p.out
                ELSE IF p.a.k = "Boolean" /\ p.b.k = "Boolean"
                     THEN EvalRes(VBoolean(p.b.b \/ ~p.a.b), p.calls)
                ELSE EvalRes(Panic(596, "type mismatch"), p.calls)
      [] e.op = "Not" ->
            LET a == Eval(e.e, R)
            IN  IF IsPanic(a.v) THEN a
                ELSE IF a.v.k = "Boolean" THEN EvalRes(VBoolean(~a.v.b), a.calls)
                ELSE EvalRes(Panic(606, "type mismatch"), a.calls)
      [] e.op = "Opposite" ->
            LET a == Eval(e.e, R)
            IN  IF IsPanic(a.v) THEN a
                ELSE CASE a.v.k = "Integer" -> EvalRes(I32Neg(a.v.i), a.calls)
                       [] a.v.k = "Float" -> EvalRes(VFloat(-a.v.f), a.calls)
                       [] OTHER -> EvalRes(Panic(615, "type mismatch"), a.calls)
      [] e.op = "Sum" -> EvalSum(SumInit, e.es, R)
      [] e.op = "Mult" -> EvalMult(MultInit, e.es, R)
      [] e.op = "Equal" ->
            LET p == EvalBoth(e.l, e.r, R)
            IN  IF p.failed THEN p.out
                ELSE IF p.a.k = "Integer" /\ p.b.k = "Integer"
                     THEN EvalRes(VBoolean(p.a.i = p.b.i), p.calls)
                ELSE IF p.a.k = "Boolean" /\ p.b.k = "Boolean"
                     THEN EvalRes(VBoolean(p.a.b = p.b.b), p.calls)
                ELSE EvalRes(Panic(661, "type mismatch"), p.calls)
      [] e.op = "Greater" -> EvalOrder(e.l, e.r, R, TRUE)
      [] e.op = "GreaterEq" ->
            LET p == EvalBoth(e.l, e.r, R)
            IN  IF p.failed THEN p.out
                ELSE IF p.a.k = "Integer" /\ p.b.k = "Integer"
                     THEN EvalRes(VBoolean(p.a.i >= p.b.i), p.calls)
                ELSE EvalRes(Panic(691, "type mismatch"), p.calls)
      [] e.op = "Less" -> EvalOrder(e.l, e.r, R, FALSE)
      [] e.op = "LessEq" ->
            LET p == EvalBoth(e.l, e.r, R)
            IN  IF p.failed THEN p.out
                ELSE IF p.a.k = "Integer" /\ p.b.k = "Integer"
                     THEN EvalRes(VBoolean(p.a.i <= p.b.i), p.calls)
                ELSE EvalRes(Panic(722, "type mismatch"), p.calls)
      [] e.op = "Append" ->
            LET a == Eval(e.l, R)
            IN  IF IsPanic(a.v) THEN a
                ELSE IF a.v.k = "List"
                     THEN LET b == Eval(e.r, R)
                              calls == a.calls \o b.calls
                          IN  IF IsPanic(b.v) THEN EvalRes(b.v, calls)
                              ELSE EvalRes(Pushed(a.v, b.v), calls)
                ELSE EvalRes(Panic(740, "type mismatch"), a.calls)
      [] e.op = "Truncate" ->
            LET a == Eval(e.e, R)
            IN  IF IsPanic(a.v) THEN a
                ELSE IF a.v.k = "List"
                     THEN IF a.v.vs # <<>>
                          THEN EvalRes(VList(a.v.t, SubSeq(a.v.vs, 1, Len(a.v.vs) - 1)), a.calls)
                          ELSE EvalRes(Panic(752, "type mismatch"), a.calls)
                ELSE EvalRes(Panic(755, "type mismatch"), a.calls)
      [] e.op = "Len" ->
            LET a == Eval(e.e, R)
            IN  IF IsPanic(a.v) THEN a
                ELSE IF a.v.k = "List" THEN EvalRes(VInteger(Len(a.v.vs)), a.calls)
                ELSE EvalRes(Panic(765, "type mismatch"), a.calls)
      [] e.op = "Mod" ->
            LET p == EvalBoth(e.l, e.r, R)
            IN  IF p.failed THEN p.out
                ELSE IF p.a.k = "Integer" /\ p.b.k = "Integer"
                     THEN EvalRes(I32Rem(p.a.i, p.b.i), p.calls)
                ELSE EvalRes(Panic(778, "type mismatch"), p.calls)

(***************************************************************************)
(* The inputs drawn for the expression language.                           *)
(***************************************************************************)
None == [k |-> "None"]

EmptyIntList == Const(VList(Integer, <<>>))

\* The operands an expression is grown from
Leaves ==
    { Const(VBoolean(FALSE)), Const(VBoolean(TRUE)), Const(VInteger(1)),
      Var("x", Integer), Var("y", Boolean), Const(VFloat(2)), EmptyIntList }

\* The variables of the resolver and the values it may give them
Vars == {"x", "y"}
Resolver(x, y) == [v \in Vars |-> IF v = "x" THEN x ELSE y]
\* The resolvers of eval (vals: a value for every variable; the last one gives
\* values that are not of the types the leaves declare) and, beside each, a
\* resolver of context (types: a type, or None, for every variable)
Resolvers ==
    { [vals |-> Resolver(VInteger(0), VBoolean(TRUE)), types |-> Resolver(Integer, Boolean)],
      [vals |-> Resolver(VInteger(4), VBoolean(FALSE)), types |-> Resolver(None, Integer)],
      [vals |-> Resolver(VBoolean(TRUE), VList(Integer, <<VInteger(1)>>)),
       types |-> Resolver(Float, None)] }

\* Scenario S1/S2 of the specification
S2Expr ==
    Nary("Sum", << Const(VInteger(1)), Var("x", Integer),
                   Nary("Mult", << Const(VFloat(2)), Const(VInteger(3)) >>) >>)
\* Scenario S3 of the specification
S3Expr ==
    Unary("Len", Binary("Append",
                        Binary("Append", EmptyIntList, Const(VInteger(3))),
                        Const(VInteger(5))))
\* Operands at the limits of i32
NegMin == Unary("Opposite", Const(VInteger(I32Min)))
SumMax == Nary("Sum", << Const(VInteger(I32Max)), Const(VInteger(1)) >>)
RemMin == Binary("Mod", Const(VInteger(I32Min)), Const(VInteger(-1)))

LimitScenarios == { NegMin, SumMax, RemMin }

\* Truncate of an Append, over lists and elements that fit and that do not
ListScenarios ==
    { Unary("Truncate", Binary("Append", l, x)) :
        l \in { EmptyIntList, Const(VList(Integer, <<VInteger(3)>>)), Const(VList(Boolean, <<>>)) },
        x \in { Const(VInteger(5)), Var("x", Integer), Var("y", Boolean) } }

\* A false antecedent in front of a consequent that fails, or that calls the
\* resolver
ImpliesScenarios ==
    { Binary("Implies", Const(VBoolean(FALSE)), b) :
        b \in { Unary("Truncate", EmptyIntList), Unary("Not", Var("y", Boolean)),
                Unary("Opposite", Var("x", Integer)) } }

\* Mod over dividends and divisors of either sign, and of zero
ModScenarios ==
    { Binary("Mod", Const(VInteger(a)), Const(VInteger(b))) :
        a \in {-7, -6, 0, 7}, b \in {-3, -2, 0, 2, 3} }

Scenarios ==
    { S2Expr, S3Expr } \cup LimitScenarios \cup ListScenarios \cup ImpliesScenarios
        \cup ModScenarios

\* The number of nodes of an expression
RECURSIVE Size(_)
RECURSIVE SizeAll(_)
SizeAll(es) == IF es = <<>> THEN 0 ELSE Size(Head(es)) + SizeAll(Tail(es))
Size(e) ==
    CASE e.op \in {"Const", "Var"} -> 1
      [] e.op \in NaryOps -> 1 + SizeAll(e.es)
      [] e.op \in UnaryOps \cup {"Component"} -> 1 + Size(e.e)
      [] e.op \in BinaryOps -> 1 + Size(e.l) + Size(e.r)

\* The Var(v, t) nodes of an expression, as pairs
RECURSIVE VarsOf(_)
VarsOf(e) ==
    CASE e.op = "Const" -> {}
      [] e.op = "Var" -> {<<e.v, e.t>>}
      [] e.op \in NaryOps -> UNION {VarsOf(e.es[i]) : i \in 1..Len(e.es)}
      [] e.op \in UnaryOps \cup {"Component"} -> VarsOf(e.e)
      [] e.op \in BinaryOps -> VarsOf(e.l) \cup VarsOf(e.r)

\* Ok(())
Unit == <<>>

\* context that only looks for unknown variables
contextUnknownOnly(e, types) ==
    IF \E p \in VarsOf(e) : types[p[1]] = None THEN Err("UnknownVar") ELSE Ok(Unit)

RECURSIVE context(_, _)
\* tuple.iter().try_for_each(|expr| expr.context(vars))
RECURSIVE contextEach(_, _)
contextEach(es, types) ==
    IF es = <<>> THEN Ok(Unit)
    ELSE IF ~context(Head(es), types).ok THEN context(Head(es), types)
    ELSE contextEach(Tail(es), types)

\* Expression::context
context(e, types) ==
    CASE e.op = "Var" ->
            IF types[e.v] # None
            THEN IF types[e.v] = e.t THEN Ok(Unit) ELSE Err("TypeMismatch")
            ELSE Err("UnknownVar")
      [] e.op = "Const" -> Ok(Unit)
      [] e.op \in NaryOps -> contextEach(e.es, types)
      [] e.op \in UnaryOps \cup {"Component"} -> context(e.e, types)
      [] e.op \in BinaryOps ->
            IF context(e.l, types).ok THEN context(e.r, types) ELSE context(e.l, types)

(***************************************************************************)
(* SpecType: types are drawn and Type::default_value is applied.           *)
(***************************************************************************)
NoEnv == [v \in Vars |-> None]

ExprIdle ==
    /\ expr = Const(VBoolean(FALSE))
    /\ env = NoEnv
    /\ res = None
    /\ out = None
    /\ overflowChecks = TRUE

TypeIdle == ty = Boolean /\ dv = None /\ model = None /\ cs = None /\ drv = None

InitType ==
    /\ ty \in BaseTypes \cup {Product(<<>>)}
    /\ dv = None
    /\ model = None /\ cs = None /\ drv = None /\ xml = None
    /\ ExprIdle

MkList ==
    /\ TypeDepth(ty) < MaxTypeDepth
    /\ ty' = List(ty)
    /\ dv' = None
    /\ UNCHANGED <<expr, env, res, out, overflowChecks, model, cs, drv, xml>>

MkProduct ==
    /\ TypeDepth(ty) < MaxTypeDepth
    /\ \E b \in BaseTypes : ty' \in {Product(<<ty>>), Product(<<ty, b>>), Product(<<b, ty>>)}
    /\ dv' = None
    /\ UNCHANGED <<expr, env, res, out, overflowChecks, model, cs, drv, xml>>

\* let v = t.default_value(); v.r#type()
ApplyDefault ==
    /\ dv = None
    /\ dv' = [k |-> "Some", of |-> ty, val |-> DefaultValue(ty)]
    /\ UNCHANGED <<ty, expr, env, res, out, overflowChecks, model, cs, drv, xml>>

NextType == MkList \/ MkProduct \/ ApplyDefault

SpecType == InitType /\ [][NextType]_vars

(***************************************************************************)
(* SpecExpr: expressions are grown from the leaves with the raw            *)
(* constructors, type-checked, compiled and evaluated.                     *)
(***************************************************************************)
\* The two builds differ only on operands at the limits of i32, which only the
\* limit scenarios hold: the other expressions are run in the checked build.
InitExpr ==
    /\ expr \in Leaves \cup {Nary(op, <<>>) : op \in NaryOps} \cup Scenarios
    /\ env = NoEnv
    /\ res = None
    /\ overflowChecks \in (IF expr \in LimitScenarios THEN BOOLEAN ELSE {TRUE})
    /\ out = None
    /\ TypeIdle /\ xml = None

Growable == expr \notin Scenarios /\ Size(expr) < MaxSize

WrapUnary ==
    /\ Growable
    /\ \E op \in UnaryOps : expr' = Unary(op, expr)
    /\ res' = None
    /\ env' = NoEnv
    /\ UNCHANGED <<ty, dv, out, overflowChecks, model, cs, drv, xml>>

WrapComponent ==
    /\ Growable
    /\ \E i \in 0..1 : expr' = Component(i, expr)
    /\ res' = None
    /\ env' = NoEnv
    /\ UNCHANGED <<ty, dv, out, overflowChecks, model, cs, drv, xml>>

WrapBinary ==
    /\ Growable
    /\ Size(expr) + 2 <= MaxSize
    /\ \E op \in BinaryOps, leaf \in Leaves :
            expr' \in {Binary(op, expr, leaf), Binary(op, leaf, expr)}
    /\ res' = None
    /\ env' = NoEnv
    /\ UNCHANGED <<ty, dv, out, overflowChecks, model, cs, drv, xml>>

WrapNary ==
    /\ Growable
    /\ \E op \in NaryOps, n \in 0..(MaxSize - 1 - Size(expr)) :
            \E sibs \in [1..n -> Leaves], pos \in 0..n :
                expr' = Nary(op, SubSeq(sibs, 1, pos) \o <<expr>> \o SubSeq(sibs, pos + 1, n))
    /\ res' = None
    /\ env' = NoEnv
    /\ UNCHANGED <<ty, dv, out, overflowChecks, model, cs, drv, xml>>

\* Scenario S4: a deciding first child in front of any expression
WrapDecided ==
    /\ Growable
    /\ ~(expr.op \in {"And", "Or"})
    /\ expr' \in { Nary("And", << Const(VBoolean(FALSE)), expr >>),
                   Nary("Or", << Const(VBoolean(TRUE)), expr >>) }
    /\ res' = None
    /\ env' = NoEnv
    /\ UNCHANGED <<ty, dv, out, overflowChecks, model, cs, drv, xml>>

\* e.context(&|v| vars[v]), e.r#type(), then FnExpression::from(e).eval(&|v| env[v])
CheckAndEval ==
    /\ res = None
    /\ \E r \in Resolvers :
            /\ env' = r.vals
            /\ res' = [k |-> "Some", type |-> ExprType(expr), ev |-> Eval(expr, r.vals),
                       vars |-> r.types, context |-> context(expr, r.types)]
    /\ UNCHANGED <<ty, dv, expr, out, overflowChecks, model, cs, drv, xml>>

NextExpr == WrapUnary \/ WrapComponent \/ WrapBinary \/ WrapNary \/ WrapDecided \/ CheckAndEval

SpecExpr == InitExpr /\ [][NextExpr]_vars

(***************************************************************************)
(* SpecCons: expressions are grown with the raw constructors of the        *)
(* Boolean and arithmetic operators and with the smart constructors.       *)
(***************************************************************************)
ConsLeaves == { Const(VBoolean(TRUE)), Var("x", Integer), Const(VFloat(2)) }

InitCons ==
    /\ expr \in ConsLeaves \cup {NegMin}
    /\ out = None
    /\ env = NoEnv
    /\ res = None
    /\ overflowChecks = TRUE
    /\ TypeIdle /\ xml = None

\* An expression is grown with the raw constructors, then a smart constructor
\* is applied to it (and to leaves beside it) once; out keeps what was applied.
RawUnary ==
    /\ out = None
    /\ Size(expr) < MaxConsSize
    /\ \E op \in {"Not", "Opposite"} : expr' = Unary(op, expr)
    /\ UNCHANGED <<ty, dv, env, res, out, overflowChecks, model, cs, drv, xml>>

RawNary ==
    /\ out = None
    /\ Size(expr) < MaxConsSize
    /\ \E op \in {"And", "Or", "Sum", "Mult", "Tuple"}, n \in 0..(MaxConsSize - 1 - Size(expr)) :
            \E sibs \in [1..n -> ConsLeaves], pos \in 0..n :
                expr' = Nary(op, SubSeq(sibs, 1, pos) \o <<expr>> \o SubSeq(sibs, pos + 1, n))
    /\ UNCHANGED <<ty, dv, env, res, out, overflowChecks, model, cs, drv, xml>>

\* Expression::and(xs), Expression::or(xs), xs.into_iter().sum(), xs.into_iter().product()
SmartNary ==
    /\ out = None
    /\ \E f \in {"and", "or", "sum", "product"}, n \in 0..2 :
            \E sibs \in [1..n -> ConsLeaves], pos \in 0..n :
                LET xs == SubSeq(sibs, 1, pos) \o <<expr>> \o SubSeq(sibs, pos + 1, n)
                    r == CASE f = "and" -> and(xs)
                           [] f = "or" -> or(xs)
                           [] f = "sum" -> sum(xs)
                           [] f = "product" -> product(xs)
                IN  out' = [k |-> "Some", f |-> f, args |-> xs, r |-> r]
    /\ UNCHANGED <<ty, dv, expr, env, res, overflowChecks, model, cs, drv, xml>>

\* !e, -e
SmartUnary ==
    /\ out = None
    /\ \E f \in {"not", "neg"} :
            LET r == IF f = "not" THEN not(expr) ELSE neg(expr)
            IN  out' = [k |-> "Some", f |-> f, args |-> <<expr>>, r |-> r]
    /\ UNCHANGED <<ty, dv, expr, env, res, overflowChecks, model, cs, drv, xml>>

\* a + b, a * b
SmartBinary ==
    /\ out = None
    /\ \E f \in {"add", "mul"}, leaf \in ConsLeaves :
            \E xs \in {<<expr, leaf>>, <<leaf, expr>>} :
                LET r == IF f = "add" THEN add(xs[1], xs[2]) ELSE mul(xs[1], xs[2])
                IN  out' = [k |-> "Some", f |-> f, args |-> xs, r |-> r]
    /\ UNCHANGED <<ty, dv, expr, env, res, overflowChecks, model, cs, drv, xml>>

\* e.component(index)
SmartComponent ==
    /\ out = None
    /\ \E index \in 0..2 :
            out' = [k |-> "Some", f |-> "component", args |-> <<expr>>, index |-> index,
                    r |-> component(expr, index)]
    /\ UNCHANGED <<ty, dv, expr, env, res, overflowChecks, model, cs, drv, xml>>

\* The raw constructor beside the smart constructor f, over the same operands
RawOf(f, args) ==
    CASE f = "and" -> Nary("And", args)
      [] f = "or" -> Nary("Or", args)
      [] f = "add" -> Nary("Sum", args)
      [] f = "mul" -> Nary("Mult", args)
      [] f = "not" -> Unary("Not", args[1])
      [] f = "neg" -> Unary("Opposite", args[1])

\* FnExpression::from(..).eval(&|v| env[v]) of what the smart constructor built
\* and of what the raw constructor builds
EvalBuilt ==
    /\ out # None
    /\ out.f \in {"and", "or", "add", "mul", "not", "neg"}
    /\ res = None
    /\ \E r \in Resolvers :
            /\ env' = r.vals
            /\ res' = [k |-> "Some", smart |-> Eval(out.r, r.vals),
                       raw |-> Eval(RawOf(out.f, out.args), r.vals)]
    /\ UNCHANGED <<ty, dv, expr, out, overflowChecks, model, cs, drv, xml>>

NextCons ==
    RawUnary \/ RawNary \/ SmartNary \/ SmartUnary \/ SmartBinary \/ SmartComponent
        \/ EvalBuilt

SpecCons == InitCons /\ [][NextCons]_vars

(***************************************************************************)
(* The program graphs and the channel system of scan_core, as a model      *)
(* file describes them.  Locations are numbered from 0, the initial one;   *)
(* program graphs, actions and channels are numbered from 1 in the order   *)
(* they are declared.  A channel of capacity k > 0 is a bounded FIFO queue  *)
(* of events (delivery time, payload); a channel of capacity 0 is a        *)
(* rendezvous.                                                             *)
(***************************************************************************)
NoMsg == Const(VBoolean(FALSE))

\* The three kinds of action
Silent(effects) ==
    [kind |-> "Silent", effects |-> effects, ch |-> 0, msg |-> NoMsg, var |-> "", delay |-> 0]
\* A send annotated with delay = d
SendAfter(ch, msg, d) ==
    [kind |-> "Send", effects |-> <<>>, ch |-> ch, msg |-> msg, var |-> "", delay |-> d]
Send(ch, msg) == SendAfter(ch, msg, 0)
Receive(ch, var) ==
    [kind |-> "Receive", effects |-> <<>>, ch |-> ch, msg |-> NoMsg, var |-> var, delay |-> 0]

\* The assignment var := e of an action
Effect(var, e) == [var |-> var, e |-> e]

\* The transition (l, a, guard, l')
Edge(from, action, guard, to) == [from |-> from, action |-> action, guard |-> guard, to |-> to]

\* A program graph: its typed variables, its actions, its transitions in the
\* order they were added
ProgramGraph(vs, actions, trans) == [vars |-> vs, actions |-> actions, trans |-> trans]

Channel(t, cap) == [type |-> t, cap |-> cap]

\* A model file: whether the parser accepts it, and what it describes
ModelFile(parses, pgs, channels) == [parses |-> parses, pgs |-> pgs, channels |-> channels]

\* e is an expression of type t over the variables vs of a program graph
Coherent(e, vs, t) ==
    /\ \A p \in VarsOf(e) : p[1] \in DOMAIN vs /\ vs[p[1]] = p[2]
    /\ ExprType(e).ok
    /\ ExprType(e).t = t

\* Validation on build: every guard is a Boolean over the variables of its
\* program graph, every effect v := e has e of the type of v, a message has the
\* type of its channel and is received into a variable of that type.
ActionCoherent(m, pg, act) ==
    /\ \A i \in 1..Len(act.effects) :
            /\ act.effects[i].var \in DOMAIN pg.vars
            /\ Coherent(act.effects[i].e, pg.vars, pg.vars[act.effects[i].var])
    /\ act.kind = "Send" =>
            /\ act.ch \in 1..Len(m.channels)
            /\ Coherent(act.msg, pg.vars, m.channels[act.ch].type)
    /\ act.kind = "Receive" =>
            /\ act.ch \in 1..Len(m.channels)
            /\ act.var \in DOMAIN pg.vars
            /\ pg.vars[act.var] = m.channels[act.ch].type

Builds(m) ==
    \A i \in 1..Len(m.pgs) :
        LET pg == m.pgs[i]
        IN  /\ \A a \in 1..Len(pg.actions) : ActionCoherent(m, pg, pg.actions[a])
            /\ \A t \in 1..Len(pg.trans) :
                    /\ pg.trans[t].action \in 1..Len(pg.actions)
                    /\ Coherent(pg.trans[t].guard, pg.vars, Boolean)

\* The configuration a channel system is built in: every program graph at its
\* initial location, every variable at the default of its type, every channel
\* empty, the clock at 0
InitialCs(m) ==
    [ now |-> 0,
      loc |-> [i \in 1..Len(m.pgs) |-> 0],
      val |-> [i \in 1..Len(m.pgs) |->
                    [v \in DOMAIN m.pgs[i].vars |-> DefaultValue(m.pgs[i].vars[v])]],
      queue |-> [c \in 1..Len(m.channels) |-> <<>>] ]

\* The guard of t holds in the valuation of its program graph
IsTrue(g) == g.k = "Boolean" /\ g.b

GuardHolds(c, pg_id, t) == IsTrue(Eval(t.guard, c.val[pg_id]).v)

\* An event of a channel: a payload and the time from which it can be delivered
Event(time, val) == [time |-> time, val |-> val]

\* The pending queue is ordered by delivery time, ties broken by insertion order
RECURSIVE InsertEvent(_, _)
InsertEvent(q, ev) ==
    IF q = <<>> THEN <<ev>>
    ELSE IF Head(q).time <= ev.time THEN <<Head(q)>> \o InsertEvent(Tail(q), ev)
    ELSE <<ev>> \o q

\* The action of the other end of a rendezvous
Matching(kind) == IF kind = "Send" THEN "Receive" ELSE "Send"

\* t is a transition of program graph p that leaves its current location, guard
\* holding, with the other end of act on the same channel
IsPartner(m, c, act, p, t) ==
    /\ t.from = c.loc[p]
    /\ m.pgs[p].actions[t.action].kind = Matching(act.kind)
    /\ m.pgs[p].actions[t.action].ch = act.ch
    /\ GuardHolds(c, p, t)

\* The transitions sel of program graph p, each paired with p
PairedWith(p, sel) == [i \in 1..Len(sel) |-> <<p, sel[i]>>]

\* The other ends in program graph p of a rendezvous action of pg_id
PartnersOf(m, c, pg_id, act, p) ==
    IF p = pg_id THEN <<>>
    ELSE PairedWith(p, SelectSeq(m.pgs[p].trans, LAMBDA t : IsPartner(m, c, act, p, t)))

\* The other ends a rendezvous action of pg_id can pair with, as <<program
\* graph, transition>>, program graphs ascending, then transitions in the order
\* they were added
RECURSIVE PartnersFrom(_, _, _, _, _)
PartnersFrom(m, c, pg_id, act, p) ==
    IF p > Len(m.pgs) THEN <<>>
    ELSE PartnersOf(m, c, pg_id, act, p) \o PartnersFrom(m, c, pg_id, act, p + 1)

Partners(m, c, pg_id, act) == PartnersFrom(m, c, pg_id, act, 1)

\* Only a rendezvous waits for its channel
ChannelReadyUnchecked(m, c, pg_id, act) ==
    \/ act.kind = "Silent"
    \/ m.channels[act.ch].cap # 0
    \/ Partners(m, c, pg_id, act) # <<>>

\* A send needs room in its bounded channel, a receive an event in it that is
\* due; on a rendezvous channel each needs the other end enabled
ChannelReady(m, c, pg_id, act) ==
    CASE act.kind = "Silent" -> TRUE
      [] m.channels[act.ch].cap = 0 -> Partners(m, c, pg_id, act) # <<>>
      [] act.kind = "Send" -> Len(c.queue[act.ch]) < m.channels[act.ch].cap
      [] act.kind = "Receive" ->
            c.queue[act.ch] # <<>> /\ Head(c.queue[act.ch]).time <= c.now

\* enabled: t leaves the current location, its guard holds, its channel is ready
Enabled(m, c, pg_id, t) ==
    /\ t.from = c.loc[pg_id]
    /\ GuardHolds(c, pg_id, t)
    /\ ChannelReady(m, c, pg_id, m.pgs[pg_id].actions[t.action])

\* Evaluating a guard of a transition that leaves a current location aborts
GuardFault(m, c) ==
    \E i \in 1..Len(m.pgs) : \E t \in 1..Len(m.pgs[i].trans) :
        /\ m.pgs[i].trans[t].from = c.loc[i]
        /\ IsPanic(Eval(m.pgs[i].trans[t].guard, c.val[i]).v)

\* The enabled moves of one program graph, in the order its transitions were added
AsMoves(pg_id, sel) == [i \in 1..Len(sel) |-> <<pg_id, sel[i].action, sel[i].to>>]

MovesOf(m, c, pg_id) ==
    AsMoves(pg_id, SelectSeq(m.pgs[pg_id].trans, LAMBDA t : Enabled(m, c, pg_id, t)))

RECURSIVE MovesFrom(_, _, _)
MovesFrom(m, c, pg_id) ==
    IF pg_id > Len(m.pgs) THEN <<>>
    ELSE MovesOf(m, c, pg_id) \o MovesFrom(m, c, pg_id + 1)

\* Every transition that leaves a current location, enabled or not
RECURSIVE LeavingFrom(_, _, _)
LeavingFrom(m, c, pg_id) ==
    IF pg_id > Len(m.pgs) THEN <<>>
    ELSE AsMoves(pg_id, SelectSeq(m.pgs[pg_id].trans, LAMBDA t : t.from = c.loc[pg_id]))
            \o LeavingFrom(m, c, pg_id + 1)

possible_transitionsUnguarded(m, c) == LeavingFrom(m, c, 1)

\* The moves, last first
possible_transitionsReversed(m, c) ==
    [i \in 1..Len(MovesFrom(m, c, 1)) |->
        MovesFrom(m, c, 1)[Len(MovesFrom(m, c, 1)) + 1 - i]]

\* possible_transitions: the moves (pg_id, action, destination), program graphs
\* ascending, then transitions in the order they were added
possible_transitions(m, c) == MovesFrom(m, c, 1)

\* The effects of an action applied left to right, each on the valuation the
\* ones before it left; an evaluation that aborts aborts the whole
\* Every effect evaluated on the valuation the transition started from
ApplyEffectsAtOnce(effects, val) ==
    IF \E i \in 1..Len(effects) : IsPanic(Eval(effects[i].e, val).v)
    THEN Eval(effects[CHOOSE i \in 1..Len(effects) :
                        /\ IsPanic(Eval(effects[i].e, val).v)
                        /\ \A j \in 1..(i - 1) : ~IsPanic(Eval(effects[j].e, val).v)].e, val).v
    ELSE [k |-> "Val",
          val |-> [v \in DOMAIN val |->
                    IF \E i \in 1..Len(effects) : effects[i].var = v
                    THEN Eval(effects[CHOOSE i \in 1..Len(effects) :
                                        /\ effects[i].var = v
                                        /\ \A j \in (i + 1)..Len(effects) : effects[j].var # v].e, val).v
                    ELSE val[v]]]

RECURSIVE ApplyEffects(_, _)
RECURSIVE Assigned(_, _, _)
ApplyEffects(effects, val) ==
    IF effects = <<>> THEN [k |-> "Val", val |-> val]
    ELSE Assigned(effects, val, Eval(Head(effects).e, val).v)

\* The first effect has evaluated to v: it is written, the others follow
Assigned(effects, val, v) ==
    IF IsPanic(v) THEN v
    ELSE ApplyEffects(Tail(effects), [val EXCEPT ![Head(effects).var] = v])

NotEnabled == [k |-> "Err", e |-> "NotEnabled"]
Done(c) == [k |-> "Ok", cs |-> c]

\* The move is enabled: one of the transitions it names is
MoveEnabled(m, c, pg_id, action, destination) ==
    \E t \in 1..Len(m.pgs[pg_id].trans) :
        /\ m.pgs[pg_id].trans[t].action = action
        /\ m.pgs[pg_id].trans[t].to = destination
        /\ Enabled(m, c, pg_id, m.pgs[pg_id].trans[t])

\* A rendezvous: the receiver takes the value of the message, both program
\* graphs move, the channel keeps nothing
\* Only the sender moves
PairedSenderOnly(c, sender, sendTo, val, msg, receiver, recvVar, recvTo) ==
    IF IsPanic(msg) THEN msg
    ELSE Done([c EXCEPT !.val[sender] = val, !.loc[sender] = sendTo])

Paired(c, sender, sendTo, val, msg, receiver, recvVar, recvTo) ==
    IF IsPanic(msg) THEN msg
    ELSE Done([c EXCEPT !.val[sender] = val,
                        !.loc[sender] = sendTo,
                        !.val[receiver] = [@ EXCEPT ![recvVar] = msg],
                        !.loc[receiver] = recvTo])

\* A send paired with the receive of partner = <<program graph, transition>>
SentPaired(m, c, pg_id, destination, val, msg, partner) ==
    Paired(c, pg_id, destination, val, msg,
           partner[1], m.pgs[partner[1]].actions[partner[2].action].var, partner[2].to)

\* A send on a rendezvous channel pairs with the first receive enabled; on a
\* bounded channel it queues the value of its message, due after its delay
Sent(m, c, pg_id, act, destination, val, msg) ==
    IF IsPanic(msg) THEN msg
    ELSE IF m.channels[act.ch].cap = 0
    THEN SentPaired(m, c, pg_id, destination, val, msg, Head(Partners(m, c, pg_id, act)))
    ELSE Done([c EXCEPT !.val[pg_id] = val,
                        !.queue[act.ch] = InsertEvent(@, Event(c.now + act.delay, msg)),
                        !.loc[pg_id] = destination])

\* A receive paired with the send of partner = <<program graph, transition>>,
\* whose message is evaluated in the sender
ReceivedPaired(m, c, pg_id, act, destination, val, partner) ==
    Paired([c EXCEPT !.val[pg_id] = val], partner[1], partner[2].to, c.val[partner[1]],
           Eval(m.pgs[partner[1]].actions[partner[2].action].msg, c.val[partner[1]]).v,
           pg_id, act.var, destination)

\* A receive on a rendezvous channel pairs with the first send enabled; on a
\* bounded channel it takes the first event
Received(m, c, pg_id, act, destination, val) ==
    IF m.channels[act.ch].cap = 0
    THEN ReceivedPaired(m, c, pg_id, act, destination, val, Head(Partners(m, c, pg_id, act)))
    ELSE Done([c EXCEPT !.val[pg_id] = [val EXCEPT ![act.var] = Head(c.queue[act.ch]).val],
                        !.queue[act.ch] = Tail(@),
                        !.loc[pg_id] = destination])

\* The effects applied, the channel is updated, then the location
Moved(m, c, pg_id, act, destination, eff) ==
    IF IsPanic(eff) THEN eff
    ELSE CASE act.kind = "Silent" ->
                Done([c EXCEPT !.val[pg_id] = eff.val, !.loc[pg_id] = destination])
           [] act.kind = "Send" ->
                Sent(m, c, pg_id, act, destination, eff.val, Eval(act.msg, eff.val).v)
           [] act.kind = "Receive" ->
                Received(m, c, pg_id, act, destination, eff.val)

\* The delivery times of the events that are not yet due
PendingTimes(c) ==
    UNION { { c.queue[ch][i].time : i \in 1..Len(c.queue[ch]) } : ch \in DOMAIN c.queue }
        \ 0..c.now

Min(S) == CHOOSE x \in S : \A y \in S : x <= y

\* The clock raised to the next delivery time whatever is enabled
SettleEager(m, c) ==
    IF PendingTimes(c) # {}
    THEN [c EXCEPT !.now = Min(PendingTimes(c))]
    ELSE c

\* Maximal progress: when no move is enabled and events are pending, the clock
\* is raised to the smallest of their delivery times
Settle(m, c) ==
    IF possible_transitions(m, c) = <<>> /\ PendingTimes(c) # {}
    THEN [c EXCEPT !.now = Min(PendingTimes(c))]
    ELSE c

Settled(m, r) == IF r.k = "Ok" THEN Done(Settle(m, r.cs)) ELSE r

\* A move that is not enabled takes the program graph to its destination all
\* the same
transitionUnchecked(m, c, pg_id, action, destination) ==
    IF ~MoveEnabled(m, c, pg_id, action, destination)
    THEN Done([c EXCEPT !.loc[pg_id] = destination])
    ELSE Settled(m, Moved(m, c, pg_id, m.pgs[pg_id].actions[action], destination,
                          ApplyEffects(m.pgs[pg_id].actions[action].effects, c.val[pg_id])))

\* transition(pg_id, action, destination): NotEnabled unless the move is
\* enabled; else the effects, the channel, then the location; then the clock
transition(m, c, pg_id, action, destination) ==
    IF ~MoveEnabled(m, c, pg_id, action, destination) THEN NotEnabled
    ELSE Settled(m, Moved(m, c, pg_id, m.pgs[pg_id].actions[action], destination,
                          ApplyEffects(m.pgs[pg_id].actions[action].effects, c.val[pg_id])))

\* transition applied to a move of possible_transitions
Apply(m, c, move) == transition(m, c, move[1], move[2], move[3])

(***************************************************************************)
(* SpecCS: a model file is handed to the command line (main.rs) or to the  *)
(* simulation loop of the tests (scan_fmt_jani/tests/tests.rs).            *)
(***************************************************************************)
MaxSteps == 6
MaxRuns == 2
MAXSTEP == 1000

True == Const(VBoolean(TRUE))
X == Var("x", Integer)
L == Var("l", List(Integer))
B == Var("b", Boolean)
One == Const(VInteger(1))
XPlusOne == Nary("Sum", <<X, One>>)
XBelowTwo == Binary("Less", X, Const(VInteger(2)))

\* Scenario S5: two program graphs, one action each, no channels, each with a
\* single transition guarded by false
Deadlocked ==
    LET pg == ProgramGraph(<<>>, <<Silent(<<>>)>>, <<Edge(0, 1, Const(VBoolean(FALSE)), 1)>>)
    IN  ModelFile(TRUE, <<pg, pg>>, <<>>)

\* x := x + 1; y := x while x < 2, or leave at any time
Counter ==
    ModelFile(TRUE,
        << ProgramGraph([x |-> Integer, y |-> Integer],
                        << Silent(<<Effect("x", XPlusOne), Effect("y", X)>>), Silent(<<>>) >>,
                        << Edge(0, 1, XBelowTwo, 0), Edge(0, 2, True, 1) >>) >>,
        <<>>)

\* A producer sends x, then x + 1, on a channel of capacity 1; a consumer
\* receives into y
Pipe ==
    ModelFile(TRUE,
        << ProgramGraph([x |-> Integer],
                        << Send(1, X), Silent(<<Effect("x", XPlusOne)>>) >>,
                        << Edge(0, 1, XBelowTwo, 1), Edge(1, 2, True, 0) >>),
           ProgramGraph([y |-> Integer],
                        << Receive(1, "y") >>,
                        << Edge(0, 1, True, 0) >>) >>,
        << Channel(Integer, 1) >>)

\* l := Truncate(l), or l := Append(l, 1) before it
Truncating ==
    ModelFile(TRUE,
        << ProgramGraph([l |-> List(Integer)],
                        << Silent(<<Effect("l", Unary("Truncate", L))>>),
                           Silent(<<Effect("l", Binary("Append", L, One))>>) >>,
                        << Edge(0, 1, True, 0), Edge(0, 2, True, 1), Edge(1, 1, True, 0) >>) >>,
        <<>>)

\* b := b >= b on a Boolean b
Comparing ==
    ModelFile(TRUE,
        << ProgramGraph([b |-> Boolean],
                        << Silent(<<Effect("b", Binary("GreaterEq", B, B))>>) >>,
                        << Edge(0, 1, True, 1) >>) >>,
        <<>>)

\* A file the parser rejects
Unparsable == ModelFile(FALSE, <<>>, <<>>)

\* x := true on an Integer x: the builder rejects it
IllTyped ==
    ModelFile(TRUE,
        << ProgramGraph([x |-> Integer],
                        << Silent(<<Effect("x", True)>>) >>,
                        << Edge(0, 1, True, 0) >>) >>,
        <<>>)

\* Scenario S6: A, after x := x + 1, sends x + 1 on the rendezvous channel; B
\* receives into its own x
Handshake ==
    ModelFile(TRUE,
        << ProgramGraph([x |-> Integer],
                        << Silent(<<Effect("x", XPlusOne)>>), Send(1, XPlusOne) >>,
                        << Edge(0, 1, True, 1), Edge(1, 2, True, 2) >>),
           ProgramGraph([x |-> Integer],
                        << Receive(1, "x") >>,
                        << Edge(0, 1, True, 1) >>) >>,
        << Channel(Integer, 0) >>)

\* Scenario S7: channel of capacity 1; P1 sends 1 with delay 5 at time 0
Delayed ==
    ModelFile(TRUE,
        << ProgramGraph(<<>>, << SendAfter(1, One, 5) >>, << Edge(0, 1, True, 1) >>),
           ProgramGraph([y |-> Integer], << Receive(1, "y") >>, << Edge(0, 1, True, 1) >>) >>,
        << Channel(Integer, 1) >>)

\* P sends 1 with delay 5, then 2 with delay 2, then steps on its own; Q
\* receives into y again and again
TwoDelays ==
    ModelFile(TRUE,
        << ProgramGraph(<<>>,
                        << SendAfter(1, One, 5), SendAfter(1, Const(VInteger(2)), 2), Silent(<<>>) >>,
                        << Edge(0, 1, True, 1), Edge(1, 2, True, 2), Edge(2, 3, True, 3) >>),
           ProgramGraph([y |-> Integer], << Receive(1, "y") >>, << Edge(0, 1, True, 0) >>) >>,
        << Channel(Integer, 2) >>)

Models ==
    { Deadlocked, Counter, Pipe, Truncating, Comparing, Unparsable, IllTyped,
      Handshake, Delayed, TwoDelays }
Commands == { "verify", "validate", "execute", "test" }
\* The drivers of a channel system: the commands, and a driver that calls
\* possible_transitions and transition as it pleases
Drivers == Commands \cup { "probe" }

\* The driver leaves with an exit code: 0 from Ok(()), 1 from an Err returned
\* by main, 101 from a panic
Exited(code, outcome) == [drv EXCEPT !.pc = "exited", !.exit = code, !.outcome = outcome]

InitCS ==
    /\ model \in Models
    /\ cs = None
    /\ \E c \in Drivers, n \in 0..MaxRuns :
            /\ c = "verify" \/ n = 0
            /\ drv = [ cmd |-> c, runs |-> n, pc |-> "start",
                    exit |-> 0, outcome |-> "running", steps |-> 0, done |-> 0,
                    seen |-> <<>>, last |-> None ]
    /\ ty = Boolean /\ dv = None /\ xml = None
    /\ ExprIdle

\* Commands::Verify { runs: _ }
Verify ==
    /\ drv.cmd = "verify" /\ drv.pc = "start"
    /\ drv' = Exited(0, "success")
    /\ UNCHANGED <<ty, dv, expr, env, res, out, overflowChecks, model, cs, xml>>

\* Parser::parse(..)?  then  Sc2CsVisitor::visit(..)?
Load ==
    IF ~model.parses THEN [k |-> "Err", e |-> "parse error"]
    ELSE IF ~Builds(model) THEN [k |-> "Err", e |-> "build error"]
    ELSE Done(InitialCs(model))

\* Commands::Validate
Validate ==
    /\ drv.cmd = "validate" /\ drv.pc = "start"
    /\ IF Load.k = "Err" THEN drv' = Exited(1, Load.e) /\ cs' = cs
       ELSE drv' = Exited(0, "success") /\ cs' = Load.cs
    /\ UNCHANGED <<ty, dv, expr, env, res, out, overflowChecks, model, xml>>

\* Commands::Execute, up to the loop
ExecuteLoad ==
    /\ drv.cmd = "execute" /\ drv.pc = "start"
    /\ IF Load.k = "Err" THEN drv' = Exited(1, Load.e) /\ cs' = cs
       ELSE drv' = [drv EXCEPT !.pc = "loop"] /\ cs' = Load.cs
    /\ UNCHANGED <<ty, dv, expr, env, res, out, overflowChecks, model, xml>>

\* model.cs.transition(pg_id, action, destination)?
ExecuteApplied(r) ==
    IF r.k = "Ok" THEN drv' = [drv EXCEPT !.steps = @ + 1] /\ cs' = r.cs
    ELSE IF r.k = "Err" THEN drv' = Exited(1, "transition error") /\ cs' = cs
    ELSE drv' = Exited(101, "panic") /\ cs' = cs

\* One turn of the loop of Commands::Execute: the first move is applied
ExecuteStep ==
    /\ drv.cmd = "execute" /\ drv.pc = "loop"
    /\ drv.steps < MaxSteps
    /\ IF GuardFault(model, cs) THEN drv' = Exited(101, "panic") /\ cs' = cs
       ELSE /\ possible_transitions(model, cs) # <<>>
            /\ ExecuteApplied(Apply(model, cs, Head(possible_transitions(model, cs))))
    /\ UNCHANGED <<ty, dv, expr, env, res, out, overflowChecks, model, xml>>

\* The loop of Commands::Execute left whether or not a move is possible
ExecuteDoneAnytime ==
    /\ drv.cmd = "execute" /\ drv.pc = "loop"
    /\ drv' = Exited(0, "success")
    /\ UNCHANGED <<ty, dv, expr, env, res, out, overflowChecks, model, cs, xml>>

\* The loop of Commands::Execute ends: possible_transitions().first() is None
ExecuteDone ==
    /\ drv.cmd = "execute" /\ drv.pc = "loop"
    /\ ~GuardFault(model, cs)
    /\ possible_transitions(model, cs) = <<>>
    /\ drv' = Exited(0, "success")
    /\ UNCHANGED <<ty, dv, expr, env, res, out, overflowChecks, model, cs, xml>>

\* tests.rs, test(): parse and build are unwrapped, a move must be possible
TestLoad ==
    /\ drv.cmd = "test" /\ drv.pc = "start"
    /\ IF Load.k = "Err" THEN drv' = Exited(101, "panic") /\ cs' = cs
       ELSE IF GuardFault(model, Load.cs) \/ possible_transitions(model, Load.cs) = <<>>
            THEN drv' = Exited(101, "panic") /\ cs' = Load.cs
       ELSE drv' = [drv EXCEPT !.pc = "loop"] /\ cs' = Load.cs
    /\ UNCHANGED <<ty, dv, expr, env, res, out, overflowChecks, model, xml>>

\* model.transition(pg_id, action, destination).unwrap(); steps += 1;
\* assert!(steps < MAXSTEP)
TestApplied(r) ==
    IF r.k = "Ok" /\ drv.steps + 1 < MAXSTEP
    THEN drv' = [drv EXCEPT !.steps = @ + 1] /\ cs' = r.cs
    ELSE drv' = Exited(101, "panic") /\ cs' = cs

\* One turn of the loop of test(): any one of the moves is applied and unwrapped
TestStep ==
    /\ drv.cmd = "test" /\ drv.pc = "loop"
    /\ drv.steps < MaxSteps
    /\ IF GuardFault(model, cs) THEN drv' = Exited(101, "panic") /\ cs' = cs
       ELSE \E i \in 1..Len(possible_transitions(model, cs)) :
                TestApplied(Apply(model, cs, possible_transitions(model, cs)[i]))
    /\ UNCHANGED <<ty, dv, expr, env, res, out, overflowChecks, model, xml>>

\* The loop of test() ends: no move is left
TestDone ==
    /\ drv.cmd = "test" /\ drv.pc = "loop"
    /\ ~GuardFault(model, cs)
    /\ possible_transitions(model, cs) = <<>>
    /\ drv' = Exited(0, "success")
    /\ UNCHANGED <<ty, dv, expr, env, res, out, overflowChecks, model, cs, xml>>

\* A driver builds the channel system
ProbeLoad ==
    /\ drv.cmd = "probe" /\ drv.pc = "start"
    /\ IF Load.k = "Err" THEN drv' = Exited(1, Load.e) /\ cs' = cs
       ELSE drv' = [drv EXCEPT !.pc = "loop"] /\ cs' = Load.cs
    /\ UNCHANGED <<ty, dv, expr, env, res, out, overflowChecks, model, xml>>

\* The driver calls possible_transitions, up to twice between two transitions,
\* and keeps what it yields
ProbeEnumerate ==
    /\ drv.cmd = "probe" /\ drv.pc = "loop"
    /\ ~GuardFault(model, cs)
    /\ Len(drv.seen) < 2
    /\ drv' = [drv EXCEPT !.seen = Append(@, possible_transitions(model, cs))]
    /\ UNCHANGED <<ty, dv, expr, env, res, out, overflowChecks, model, cs, xml>>

\* What the driver keeps of a call of transition
ProbeApplied(r) ==
    IF r.k = "Ok"
    THEN drv' = [drv EXCEPT !.steps = @ + 1, !.seen = <<>>, !.last = None] /\ cs' = r.cs
    ELSE drv' = Exited(101, "panic") /\ cs' = cs

\* The driver applies one of the moves of possible_transitions
ProbeStep ==
    /\ drv.cmd = "probe" /\ drv.pc = "loop"
    /\ drv.steps < MaxSteps
    /\ ~GuardFault(model, cs)
    /\ \E i \in 1..Len(possible_transitions(model, cs)) :
            ProbeApplied(Apply(model, cs, possible_transitions(model, cs)[i]))
    /\ UNCHANGED <<ty, dv, expr, env, res, out, overflowChecks, model, xml>>

\* The locations a program graph mentions
Locations(pg) ==
    { pg.trans[t].from : t \in 1..Len(pg.trans) } \cup { pg.trans[t].to : t \in 1..Len(pg.trans) }

Range(seq) == { seq[i] : i \in 1..Len(seq) }

\* What the driver keeps of a call of transition with a move of its own
ProbeCalled(move, r) ==
    /\ drv' = [drv EXCEPT !.last = [ k |-> "Some", move |-> move, r |-> r.k,
                                     e |-> IF r.k = "Err" THEN r.e ELSE "" ]]
    /\ cs' = IF r.k = "Ok" THEN r.cs ELSE cs

\* The driver calls transition with a move that possible_transitions does not yield
ProbeCall ==
    /\ drv.cmd = "probe" /\ drv.pc = "loop"
    /\ ~GuardFault(model, cs)
    /\ \E pg_id \in 1..Len(model.pgs) :
         \E action \in 1..Len(model.pgs[pg_id].actions),
            destination \in Locations(model.pgs[pg_id]) :
            /\ <<pg_id, action, destination>> \notin Range(possible_transitions(model, cs))
            /\ ProbeCalled(<<pg_id, action, destination>>,
                           transition(model, cs, pg_id, action, destination))
    /\ UNCHANGED <<ty, dv, expr, env, res, out, overflowChecks, model, xml>>

NextCS ==
    \/ Verify \/ Validate
    \/ ExecuteLoad \/ ExecuteStep \/ ExecuteDone
    \/ TestLoad \/ TestStep \/ TestDone
    \/ ProbeLoad \/ ProbeEnumerate \/ ProbeStep \/ ProbeCall

SpecCS == InitCS /\ [][NextCS]_vars

(***************************************************************************)
(* Claims about the value and type algebra and the evaluator.              *)
(***************************************************************************)

\* C4: for every type t, the type recovered from the default value of t is t;
\* the default of List(t') is an empty list that still carries t'.
C4_DefaultRoundTrip ==
    dv.k = "Some" =>
        /\ ValType(dv.val) = dv.of
        /\ dv.of.k = "List" => (dv.val.k = "List" /\ dv.val.vs = <<>> /\ dv.val.t = dv.of.t)

\* C4 witness: the default of a list of products, nested in a product, has been taken
C4_Witness ==
    /\ dv.k = "Some"
    /\ dv.of.k = "Product"
    /\ \E i \in 1..Len(dv.of.ts) : dv.of.ts[i].k = "List" /\ dv.of.ts[i].t.k = "Product"

\* The resolver gives every Var(v, tv) of e a value of type tv
EnvWellTyped(e, R) == \A p \in VarsOf(e) : ValType(R[p[1]]) = p[2]

\* The panics the evaluator may end in on a well-typed expression: Truncate of an
\* empty list (line 752) and the arithmetic faults (lines 613, 623, 641, 776)
AllowedFault(v) == IsPanic(v) /\ v.line \in {752, 613, 623, 641, 776}

\* C2: a well-typed expression evaluated under a well-typed resolver returns a
\* value of the expression's type; it may fail only on Truncate of an empty list
\* or on an arithmetic fault.
C2_TypePreservation ==
    (res.k = "Some" /\ res.type.ok /\ EnvWellTyped(expr, env)) =>
        \/ ~IsPanic(res.ev.v) /\ ValType(res.ev.v) = res.type.t
        \/ AllowedFault(res.ev.v)

\* The arithmetic product of numeric values: Integer when all are Integer, Float otherwise
RECURSIVE ProductOf(_)
ProductOf(vs) ==
    IF vs = <<>> THEN 1 ELSE Num(Head(vs)) * ProductOf(Tail(vs))

ProductVal(vs) ==
    IF \A i \in 1..Len(vs) : vs[i].k = "Integer" THEN VInteger(ProductOf(vs))
    ELSE VFloat(ProductOf(vs))

\* C3: Mult(es) over a non-empty list of numeric operands evaluates to the
\* arithmetic product of the operand values; Sum([1, x, Mult([2.0, 3])]) is
\* 11 when x = 4 and 7 when x = 0.
C3_MultIsProduct ==
    res.k = "Some" =>
        /\ (expr.op = "Mult" /\ expr.es # <<>>) =>
                LET vs == [i \in 1..Len(expr.es) |-> Eval(expr.es[i], env).v]
                IN  (\A i \in 1..Len(vs) : vs[i].k \in {"Integer", "Float"})
                        => res.ev.v = ProductVal(vs)
        /\ (expr = S2Expr /\ env["x"] = VInteger(4)) => res.ev.v = VFloat(11)
        /\ (expr = S2Expr /\ env["x"] = VInteger(0)) => res.ev.v = VFloat(7)

\* The resolver calls of the children es[1..n], in order
RECURSIVE CallsUpTo(_, _, _)
CallsUpTo(es, n, R) ==
    IF n = 0 THEN <<>> ELSE CallsUpTo(es, n - 1, R) \o Eval(es[n], R).calls

\* Child j is the first child of es that evaluates to the Boolean b; the ones
\* before it evaluate to the other Boolean
FirstDeciding(es, j, b, R) ==
    /\ Eval(es[j], R).v = VBoolean(b)
    /\ \A i \in 1..(j - 1) : Eval(es[i], R).v = VBoolean(~b)

\* C5: And / Or evaluate their children left to right and stop at the first
\* child that decides the result (false for And, true for Or): the result is
\* that Boolean and no later child is evaluated, whatever the later children are.
C5_ShortCircuit ==
    (res.k = "Some" /\ expr.op \in {"And", "Or"}) =>
        \A j \in 1..Len(expr.es) :
            FirstDeciding(expr.es, j, expr.op = "Or", env) =>
                /\ res.ev.v = VBoolean(expr.op = "Or")
                /\ res.ev.calls = CallsUpTo(expr.es, j, env)

\* C5 witness: And([Const false, c]) has been evaluated for a c that panics on its own
C5_Witness ==
    /\ res.k = "Some"
    /\ expr.op = "And"
    /\ Len(expr.es) = 2
    /\ expr.es[1] = Const(VBoolean(FALSE))
    /\ IsPanic(Eval(expr.es[2], env).v)
    /\ res.ev.v = VBoolean(FALSE)

\* The smart constructor named f applied to the list xs
ApplySmart(f, xs) ==
    CASE f = "and" -> and(xs)
      [] f = "or" -> or(xs)
      [] f = "sum" -> sum(xs)
      [] f = "product" -> product(xs)

\* C6: the flattening smart constructors are idempotent: applied to the one
\* expression they have just built, and / or / sum / product return that expression.
C6_FlattenIdempotent ==
    (out.k = "Some" /\ out.f \in {"and", "or", "sum", "product"}) =>
        ApplySmart(out.f, <<out.r>>) = out.r

\* C6 witness: and(xs) has flattened an And among two arguments
C6_Witness ==
    /\ out.k = "Some"
    /\ out.f = "and"
    /\ Len(out.args) = 2
    /\ \E i \in 1..2 : out.args[i].op = "And" /\ Len(out.args[i].es) = 2
    /\ Len(out.r.es) = 3

\* C7 as stated: for every expression e, raw Not / Opposite trees included,
\* !(!e) = e and -(-e) = e as trees.
C7_DoubleNegationAll ==
    /\ (out.k = "Some" /\ out.f = "not") => not(out.r) = out.args[1]
    /\ (out.k = "Some" /\ out.f = "neg") => neg(out.r) = out.args[1]

\* e is Not(Not(_)), respectively Opposite(Opposite(_))
Doubled(op, e) == e.op = op /\ e.e.op = op

\* C7 amended: !(!e) = e and -(-e) = e as trees for every e that is not of the
\* form Not(Not(_)), respectively Opposite(Opposite(_)).
C7_DoubleNegation ==
    /\ (out.k = "Some" /\ out.f = "not" /\ ~Doubled("Not", out.args[1]))
            => not(out.r) = out.args[1]
    /\ (out.k = "Some" /\ out.f = "neg" /\ ~Doubled("Opposite", out.args[1]))
            => neg(out.r) = out.args[1]

\* C7 witness: ! has been applied to a raw Not(e), cancelling it
C7_Witness ==
    /\ out.k = "Some"
    /\ out.f = "not"
    /\ out.args[1].op = "Not"
    /\ ~Doubled("Not", out.args[1])
    /\ out.r = out.args[1].e

(***************************************************************************)
(* Claims about the channel system and the command line.                   *)
(***************************************************************************)
\* The moves possible_transitions yields in the current configuration
Moves == possible_transitions(model, cs)

\* The configuration is one a driver observes: built, and enumerable
Observable == cs # None /\ ~GuardFault(model, cs)

EffectAborts(m, c, move) ==
    LET act == m.pgs[move[1]].actions[move[2]]
        eff == ApplyEffects(act.effects, c.val[move[1]])
    IN  \/ IsPanic(eff)
        \/ act.kind = "Send" /\ IsPanic(Eval(act.msg, eff.val).v)

C8State ==
    drv.cmd = "execute" =>
        /\ (drv.pc = "exited" /\ drv.outcome = "success") =>
                drv.exit = 0 /\ ~GuardFault(model, cs) /\ Moves = <<>>
        /\ (drv.pc = "exited" /\ drv.outcome \in {"transition error", "panic"}) => drv.exit # 0
        /\ (cs # None /\ ~GuardFault(model, InitialCs(model))
                /\ possible_transitions(model, InitialCs(model)) = <<>>) => drv.steps = 0

\* A turn of the loop of the execute command
C8Step ==
    (drv.cmd = "execute" /\ drv.pc = "loop") =>
        \/ /\ drv'.pc = "loop" /\ drv'.steps = drv.steps + 1
           /\ Observable /\ Moves # <<>>
           /\ Apply(model, cs, Head(Moves)).k = "Ok"
           /\ cs' = Apply(model, cs, Head(Moves)).cs
        \/ /\ drv'.pc = "exited" /\ drv'.outcome = "success" /\ drv'.exit = 0
           /\ Observable /\ Moves = <<>>
           /\ cs' = cs
        \/ /\ drv'.pc = "exited" /\ drv'.outcome # "success" /\ drv'.exit # 0
           /\ GuardFault(model, cs) \/ (Moves # <<>> /\ Apply(model, cs, Head(Moves)).k # "Ok")

\* C8: execute applies a move of possible_transitions (the first) again and
\* again; it leaves with success, exit 0, only when possible_transitions is
\* empty; it takes no step when no move is possible initially; a transition
\* that fails ends the run with a failure.
C8_ExecuteLoop == [][C8Step]_vars /\ []C8State

\* C8 witness: execute has left with success after applying moves
C8_Witness ==
    /\ drv.cmd = "execute" /\ drv.pc = "exited" /\ drv.outcome = "success"
    /\ drv.steps >= 2
    /\ Moves = <<>>

\* C9: the exit code is 0 on success, 1 when parsing fails, 2 when building
\* the channel system fails, 3 when a transition fails at run time.
C9_ExitCodes ==
    (drv.pc = "exited" /\ drv.cmd \in {"validate", "execute"}) =>
        /\ drv.outcome = "success" => drv.exit = 0
        /\ drv.outcome = "parse error" => drv.exit = 1
        /\ drv.outcome = "build error" => drv.exit = 2
        /\ drv.outcome = "transition error" => drv.exit = 3

\* C10: verify --runs N parses and builds the model and performs N runs.
C10_VerifyRuns ==
    (drv.cmd = "verify" /\ drv.pc = "exited" /\ Load.k = "Ok") =>
        cs # None /\ drv.done = drv.runs

\* The moves of program graph p among moves
MovesIn(moves, p) == SelectSeq(moves, LAMBDA mv : mv[1] = p)

\* sub lists, in the order they were added, exactly the enabled transitions of
\* program graph p
InAddedOrder(m, c, p, sub) ==
    /\ Len(sub) = Cardinality({ t \in 1..Len(m.pgs[p].trans) : Enabled(m, c, p, m.pgs[p].trans[t]) })
    /\ \E f \in [1..Len(sub) -> 1..Len(m.pgs[p].trans)] :
            /\ \A i, j \in 1..Len(sub) : i < j => f[i] < f[j]
            /\ \A i \in 1..Len(sub) :
                    /\ Enabled(m, c, p, m.pgs[p].trans[f[i]])
                    /\ sub[i] = <<p, m.pgs[p].trans[f[i]].action, m.pgs[p].trans[f[i]].to>>

\* What possible_transitions yields is ordered, and every call the driver made
\* since the last transition yielded the same
C11State ==
    Observable =>
        /\ \A i, j \in 1..Len(Moves) : i < j => Moves[i][1] <= Moves[j][1]
        /\ \A p \in 1..Len(model.pgs) : InAddedOrder(model, cs, p, MovesIn(Moves, p))
        /\ drv.pc = "loop" => \A i \in 1..Len(drv.seen) : drv.seen[i] = Moves

\* A call of possible_transitions changes nothing of the configuration
C11Step == (drv'.seen # drv.seen /\ drv'.seen # <<>>) => cs' = cs

ActionOf(move) == model.pgs[move[1]].actions[move[2]]

\* C12: in every configuration reached by transitions a bounded channel holds
\* at most capacity messages and a rendezvous channel holds none; no send is
\* enumerated on a full bounded channel and no receive on an empty one.
C12_ChannelsWithinCapacity ==
    Observable =>
        /\ \A ch \in DOMAIN cs.queue : Len(cs.queue[ch]) <= model.channels[ch].cap
        /\ \A i \in 1..Len(Moves) :
                /\ ActionOf(Moves[i]).kind = "Send" /\ model.channels[ActionOf(Moves[i]).ch].cap > 0
                        => Len(cs.queue[ActionOf(Moves[i]).ch]) < model.channels[ActionOf(Moves[i]).ch].cap
                /\ ActionOf(Moves[i]).kind = "Receive" /\ model.channels[ActionOf(Moves[i]).ch].cap > 0
                        => cs.queue[ActionOf(Moves[i]).ch] # <<>>

\* C12 witness: a bounded channel is full while a program graph stands at a
\* send on it whose guard holds, and another at a receive on it
C12_Witness ==
    /\ Observable
    /\ \E ch \in DOMAIN cs.queue :
            /\ model.channels[ch].cap > 0
            /\ Len(cs.queue[ch]) = model.channels[ch].cap
            /\ \E p \in 1..Len(model.pgs) : \E t \in 1..Len(model.pgs[p].trans) :
                    /\ model.pgs[p].trans[t].from = cs.loc[p]
                    /\ GuardHolds(cs, p, model.pgs[p].trans[t])
                    /\ model.pgs[p].actions[model.pgs[p].trans[t].action].kind = "Send"
                    /\ model.pgs[p].actions[model.pgs[p].trans[t].action].ch = ch
            /\ \E i \in 1..Len(Moves) :
                    ActionOf(Moves[i]).kind = "Receive" /\ ActionOf(Moves[i]).ch = ch

\* The clock went from the time of stopped, a configuration with the new
\* locations, values and channels, to later: nothing was enabled in stopped and
\* later is the smallest delivery time pending in it
Advanced(stopped, later) ==
    /\ possible_transitions(model, stopped) = <<>>
    /\ PendingTimes(stopped) # {}
    /\ later = Min(PendingTimes(stopped))

\* A step of a built channel system
C13Step ==
    (cs # None /\ cs' # cs) =>
        /\ cs'.now >= cs.now
        /\ cs'.now > cs.now => Advanced([cs' EXCEPT !.now = cs.now], cs'.now)
        /\ \A ch \in DOMAIN cs.queue :
                Len(cs'.queue[ch]) < Len(cs.queue[ch]) => Head(cs.queue[ch]).time <= cs.now

\* C13: the clock never decreases; it advances only from a configuration in
\* which no move is enabled, and then to the smallest delivery time among the
\* pending events; no event leaves its channel before its delivery time.
C13_ClockMonotone == [][C13Step]_vars

\* C13 witness: the event sent second with the shorter delay was delivered
\* first, at its time, and the clock then went on to the time of the other,
\* which is due
C13_Witness ==
    /\ model = TwoDelays /\ cs # None
    /\ cs.now = 5
    /\ cs.val[2].y = VInteger(2)
    /\ Len(cs.queue[1]) = 1
    /\ Head(cs.queue[1]).time = 5

\* r is the outcome of move, whose action act is one end of a rendezvous: if
\* it succeeded, some program graph q took the other end by an edge e, both
\* are at their destinations, the variable of the receiving end holds the
\* message evaluated in the sending one, the channel is empty and no other
\* program graph moved
Synchronised(move, act, r) ==
    r.k = "Ok" =>
        \E q \in (1..Len(model.pgs)) \ { move[1] } : \E t \in 1..Len(model.pgs[q].trans) :
            /\ model.pgs[q].trans[t].from = cs.loc[q]
            /\ model.pgs[q].actions[model.pgs[q].trans[t].action].kind \in { "Send", "Receive" } \ { act.kind }
            /\ model.pgs[q].actions[model.pgs[q].trans[t].action].ch = act.ch
            /\ r.cs.loc[move[1]] = move[3]
            /\ r.cs.loc[q] = model.pgs[q].trans[t].to
            /\ IF act.kind = "Send"
               THEN r.cs.val[q][model.pgs[q].actions[model.pgs[q].trans[t].action].var]
                        = Eval(act.msg, cs.val[move[1]]).v
               ELSE r.cs.val[move[1]][act.var]
                        = Eval(model.pgs[q].actions[model.pgs[q].trans[t].action].msg, cs.val[q]).v
            /\ r.cs.queue[act.ch] = <<>>
            /\ \A o \in (1..Len(model.pgs)) \ { move[1], q } :
                    r.cs.loc[o] = cs.loc[o] /\ r.cs.val[o] = cs.val[o]

\* C14: a send and a receive on a rendezvous channel are applied atomically:
\* one step moves both program graphs to their destinations and gives the
\* receiver's variable the message evaluated in the sender; no configuration
\* has only one of them moved, and the channel is empty afterwards.
C14_RendezvousAtomic ==
    Observable =>
        /\ \A i \in 1..Len(Moves) :
                (ActionOf(Moves[i]).kind # "Silent" /\ model.channels[ActionOf(Moves[i]).ch].cap = 0)
                    => Synchronised(Moves[i], ActionOf(Moves[i]), Apply(model, cs, Moves[i]))
        /\ model = Handshake => (cs.loc[1] = 2 <=> cs.loc[2] = 1)

\* C14 witness: in scenario S6 both have moved, and x of B holds x + 1 of A
C14_Witness ==
    /\ model = Handshake /\ cs # None
    /\ cs.loc = <<2, 1>>
    /\ cs.val[1].x = VInteger(1)
    /\ cs.val[2].x = VInteger(2)
    /\ cs.queue[1] = <<>>

\* prev with the effect eff executed on it
Executed(prev, eff) == [prev EXCEPT ![eff.var] = Eval(eff.e, prev).v]

\* The valuation after the first n of effects, each executed on the valuation
\* the ones before it left
RECURSIVE AfterEffects(_, _, _)
AfterEffects(effects, val, n) ==
    IF n = 0 THEN val ELSE Executed(AfterEffects(effects, val, n - 1), effects[n])

\* C15: the effects of a transition are executed in the order they were
\* declared, each on the valuation the ones before it left, and the program
\* graph is then at the destination of the transition.
C15_EffectsInOrder ==
    Observable =>
        \A i \in 1..Len(Moves) :
            (ActionOf(Moves[i]).kind = "Silent" /\ Apply(model, cs, Moves[i]).k = "Ok") =>
                /\ Apply(model, cs, Moves[i]).cs.val[Moves[i][1]]
                        = AfterEffects(ActionOf(Moves[i]).effects, cs.val[Moves[i][1]],
                                       Len(ActionOf(Moves[i]).effects))
                /\ Apply(model, cs, Moves[i]).cs.loc[Moves[i][1]] = Moves[i][3]

\* C15 witness: x := x + 1; y := x has run twice: y is the new x, and the
\* program graph took the other transition to its destination
C15_Witness ==
    /\ model = Counter /\ cs # None
    /\ cs.val[1].x = VInteger(2)
    /\ cs.val[1].y = VInteger(2)
    /\ cs.loc[1] = 1

\* A call of transition with a move possible_transitions does not yield
C16Step ==
    (drv'.last # drv.last /\ drv'.last # None) =>
        /\ drv'.last.move \notin Range(Moves)
        /\ drv'.last.r = "Err"
        /\ drv'.last.e = "NotEnabled"
        /\ cs' = cs

MaxDepth == 4
\* Where the FSM parser reads well-formed tags (SpecDoc, SpecStates), they
\* are nested up to MaxNesting and hold at most MaxItems executables and
\* <elif> branches
MaxNesting == 5
MaxItems == 2

AttrType == "int32"
CommentType == "float64"

XmlEvent(ev, name, attrs, words, whole) ==
    [ev |-> ev, name |-> name, attrs |-> attrs, words |-> words, whole |-> whole,
     id |-> "", moc |-> "", script |-> "expression"]

StartOf(name, attrs) == XmlEvent("Start", name, attrs, <<>>, TRUE)
\* A start tag whose end tag the input does not hold
Unended(name) == XmlEvent("Start", name, {}, <<>>, FALSE)
EndOf(name) == XmlEvent("End", name, {}, <<>>, TRUE)
EmptyOf(name, attrs) == XmlEvent("Empty", name, attrs, <<>>, TRUE)
\* A comment: its words, each cut at its first colon
CommentOf(words) == XmlEvent("Comment", "", {}, words, TRUE)
OtherEvent(ev) == XmlEvent(ev, "", {}, <<>>, TRUE)
\* The tag e whose expression attribute (expr, cond, targetexpr, location) holds
\* script: "expression" is an expression statement, "statement" a statement
\* of another kind, "empty" no statement, "malformed" no EcmaScript
Scripted(e, script) == [e EXCEPT !.script = script]
\* <process id=.. moc=.. path=../> with the values of id and moc; whole = the
\* file at path parses
ProcessOf(id, moc, attrs, whole) ==
    [XmlEvent("Empty", "process", attrs, <<>>, whole) EXCEPT !.id = id, !.moc = moc]

Some(v) == [k |-> "Some", v |-> v]
Parsing == [k |-> "Parsing", e |-> ""]
Parsed == [k |-> "Ok", e |-> ""]
ParserError(e) == [k |-> "Err", e |-> e]
Aborted(msg) == [k |-> "Panic", e |-> msg]
\* ParserErrorType::AlreadyDeclared(id)
AlreadyDeclared(id) == [k |-> "Err", e |-> "AlreadyDeclared", id |-> id]

\* A parser that has read nothing yet
Reader(parser) ==
    [ parser |-> parser, stack |-> <<>>, type_annotation |-> None, buf |-> None,
      item |-> None, tag_since_comment |-> FALSE, result |-> Parsing,
      process_list |-> {} ]

Top(stack) == stack[Len(stack)]
TopIs(stack, tags) == stack # <<>> /\ Top(stack).tag \in tags
Popped(stack) == SubSeq(stack, 1, Len(stack) - 1)

\* A tag of the stack.  An If holds its branches elif (the first is the
\* branch of <if> itself) and else, each the executables pushed into it, and
\* else_flag; marker remembers which branch the last of <if>, <elif> and
\* <else> read opened: the number of the elif branch, 0 for else
\* A Scxml holds its states, a State its id, on_entry and on_exit, an OnEntry
\* or OnExit its executables (execs); the transitions of a State and the
\* effects of a Transition are not kept
Tag(tag) ==
    [tag |-> tag, else_flag |-> FALSE, elif |-> <<>>, else |-> <<>>, marker |-> 0,
     id |-> "", states |-> {}, execs |-> <<>>, on_entry |-> <<>>, on_exit |-> <<>>]
Push(x, tag) == [x EXCEPT !.stack = Append(@, Tag(tag))]
\* The messages of expect(..) and todo!()
Panics == { "hope this works", "hopefully there is a statement", "not yet implemented" }
\* The parser stops: it panics with e or returns the error e
Stopped(e) == IF e \in Panics THEN Aborted(e) ELSE ParserError(e)
Failed(x, e) == [x EXCEPT !.result = Stopped(e)]

\* The loop over tag.attributes(): a key that is not known is UnknownKey;
\* after the loop the first required key that is missing is MissingAttr
AttrError(attrs, known, required) ==
    IF attrs \ known # {} THEN "UnknownKey"
    ELSE IF required \ attrs # {} THEN "MissingAttr"
    ELSE ""

\* boa_parser's parse_script(..).expect(..).statements().first().expect(..)
FirstStatement(script) ==
    CASE script = "malformed" -> "hope this works"
      [] script = "empty" -> "hopefully there is a statement"
      [] OTHER -> ""

\* if let Statement(Expression(..)) = .. else: otherwise is what the caller does
\* with a statement that is no expression
ExpressionOf(script, otherwise) ==
    IF FirstStatement(script) # "" THEN FirstStatement(script)
    ELSE IF script = "statement" THEN otherwise
    ELSE ""

\* The caller with its attributes checked: it parses the expression if present
Embedded(err, present, script, otherwise) ==
    IF err # "" THEN err
    ELSE IF present THEN ExpressionOf(script, otherwise)
    ELSE ""

\* Scxml::parse: keys other than name and initial are ignored
ScxmlParse(attrs) == AttrError(attrs \cap {"name", "initial"}, {"name", "initial"}, {"name", "initial"})
StateParse(attrs) == AttrError(attrs, {"id"}, {"id"})
TransitionParse(attrs, script) ==
    Embedded(AttrError(attrs, {"event", "target", "cond"}, {"target"}),
             "cond" \in attrs, script, "EcmaScriptParsing")
parse_raise(attrs) == AttrError(attrs, {"event"}, {"event"})
parse_assign(attrs, script) ==
    Embedded(AttrError(attrs, {"location", "expr"}, {"location", "expr"}),
             TRUE, script, "assignment is not an expression")
\* targetexpr is parsed when there is no target
SendParse(attrs, script) ==
    Embedded(AttrError(attrs, {"event", "target", "targetexpr", "delay"}, {"event"}),
             "targetexpr" \in attrs /\ "target" \notin attrs, script, "EcmaScriptParsing")
IfParse(attrs, script) ==
    Embedded(AttrError(attrs, {"cond"}, {"cond"}), TRUE, script, "EcmaScriptParsing")

\* The Data or Param a tag was parsed into, with its type annotation
Item(tag, omg_type) == [k |-> "Item", tag |-> tag, omg_type |-> omg_type]

\* Data::parse(tag, omg_type, ..): r#type.or(omg_type), required
DataParse(attrs, omg_type, script) ==
    IF AttrError(attrs, {"id", "expr", "type"}, {"id"}) # ""
    THEN ParserError(AttrError(attrs, {"id", "expr", "type"}, {"id"}))
    ELSE IF "type" \notin attrs /\ omg_type = None THEN ParserError("NoTypeAnnotation")
    ELSE IF "expr" \in attrs /\ ExpressionOf(script, "not yet implemented") # ""
    THEN Stopped(ExpressionOf(script, "not yet implemented"))
    ELSE IF "type" \in attrs THEN Item("data", Some(AttrType))
    ELSE Item("data", omg_type)

\* Param::parse(tag, omg_type, ..): omg_type.or(r#type), optional
ParamParse(attrs, omg_type, script) ==
    IF AttrError(attrs, {"name", "location", "expr", "type"}, {"name"}) # ""
    THEN ParserError(AttrError(attrs, {"name", "location", "expr", "type"}, {"name"}))
    ELSE IF attrs \cap {"expr", "location"} = {} THEN ParserError("MissingExpr")
    ELSE IF ExpressionOf(script, "EcmaScriptParsing") # ""
    THEN Stopped(ExpressionOf(script, "EcmaScriptParsing"))
    ELSE IF omg_type # None THEN Item("param", omg_type)
    ELSE IF "type" \in attrs THEN Item("param", Some(AttrType))
    ELSE Item("param", None)

\* Fsm::parse_comment
parse_comment(words) ==
    IF words = <<>> THEN ParserError("no keyword")
    ELSE IF words[1] # <<"TYPE">> THEN None
    ELSE IF Len(words) < 2 THEN ParserError("no body")
    ELSE IF Len(words[2]) < 2 THEN ParserError("badly formatted type declaration")
    ELSE Some(words[2][2])

Executables == { "onentry", "onexit", "transition", "if" }
AnyExecutable(stack) == \E i \in 1..Len(stack) : stack[i].tag \in Executables

\* A tag the match has no arm for, here: it is skipped up to its end tag,
\* which the reader must find
Skipped(x, e) == IF e.whole THEN x ELSE Failed(x, "Reader")

\* The tag is pushed unless its attributes are refused
Opened(x, tag, err) == IF err = "" THEN Push(x, tag) ELSE Failed(x, err)

\* If::parse, the condition parsed: self.elif.push((cond, Vec::new()))
Branched(if) == [if EXCEPT !.elif = Append(@, <<>>), !.marker = Len(if.elif) + 1]

\* Executable::push into an If
Attached(if, child) ==
    IF if.else_flag THEN [if EXCEPT !.else = Append(@, child)]
    ELSE [if EXCEPT !.elif[Len(if.elif)] = Append(@, child)]

\* Fsm::parse, Event::Start(tag)
FsmStart(x, e) ==
    CASE e.name = "scxml" /\ x.stack = <<>> -> Opened(x, "scxml", ScxmlParse(e.attrs))
      [] e.name = "datamodel" /\ TopIs(x.stack, {"scxml"}) -> Push(x, "datamodel")
      [] e.name = "state" /\ TopIs(x.stack, {"scxml"}) ->
            IF StateParse(e.attrs) = ""
            THEN [x EXCEPT !.stack = Append(@, [Tag("state") EXCEPT !.id = e.id])]
            ELSE Failed(x, StateParse(e.attrs))
      [] e.name = "transition" /\ TopIs(x.stack, {"state"}) ->
            Opened(x, "transition", TransitionParse(e.attrs, e.script))
      [] e.name = "send" /\ AnyExecutable(x.stack) -> Opened(x, "send", SendParse(e.attrs, e.script))
      [] e.name = "if" /\ AnyExecutable(x.stack) ->
            IF IfParse(e.attrs, e.script) = ""
            THEN [x EXCEPT !.stack = Append(@, Branched(Tag("if")))]
            ELSE Failed(x, IfParse(e.attrs, e.script))
      [] e.name \in {"onentry", "onexit"} /\ TopIs(x.stack, {"state"}) -> Push(x, e.name)
      [] OTHER -> Skipped(x, e)

\* Executable::push
ExecutablePushed(x, child) ==
    IF TopIs(x.stack, {"if"}) THEN [x EXCEPT !.stack[Len(x.stack)] = Attached(@, child)]
    ELSE IF TopIs(x.stack, {"onentry", "onexit"})
    THEN [x EXCEPT !.stack[Len(x.stack)].execs = Append(@, child)]
    ELSE IF TopIs(x.stack, Executables) THEN x
    ELSE Failed(x, "send must be inside an executable tag")

\* The State of a <state> tag
State(tag) == [id |-> tag.id, on_entry |-> tag.on_entry, on_exit |-> tag.on_exit]

\* fsm.states.insert(self.id.to_owned(), self): the state of that id, if
\* any, is replaced
StatesInserted(states, state) == { s \in states : s.id # state.id } \cup { state }

\* State::push, the Scxml on top
StatePushed(x, state) == [x EXCEPT !.stack[Len(x.stack)].states = StatesInserted(@, state)]

\* Fsm::parse, Event::End(tag), the tag popped matching: x is the parser with
\* the stack popped, closed the tag popped
FsmClosed(x, closed) ==
    CASE closed.tag = "scxml" /\ x.stack = <<>> -> [x EXCEPT !.result = Parsed]
      [] closed.tag = "datamodel" /\ TopIs(x.stack, {"scxml"}) -> x
      [] closed.tag = "state" /\ TopIs(x.stack, {"scxml"}) -> StatePushed(x, State(closed))
      [] closed.tag = "transition" /\ TopIs(x.stack, {"state"}) -> x
      [] closed.tag = "onentry" /\ TopIs(x.stack, {"state"}) ->
            [x EXCEPT !.stack[Len(x.stack)].on_entry = closed.execs]
      [] closed.tag = "onexit" /\ TopIs(x.stack, {"state"}) ->
            [x EXCEPT !.stack[Len(x.stack)].on_exit = closed.execs]
      [] closed.tag \in {"send", "if"} /\ AnyExecutable(x.stack) -> ExecutablePushed(x, closed.tag)
      [] OTHER -> [x EXCEPT !.result = Aborted("All tags should be considered")]

\* Fsm::parse, Event::End(tag)
FsmEnd(x, e) ==
    IF x.stack = <<>> \/ Top(x.stack).tag # e.name
    THEN [x EXCEPT !.stack = Popped(@), !.result = ParserError("UnexpectedEndTag")]
    ELSE FsmClosed([x EXCEPT !.stack = Popped(@)], Top(x.stack))

\* The Data or Param is kept, or its error returned
Kept(x, item) == IF item.k \in {"Err", "Panic"} THEN [x EXCEPT !.result = item] ELSE [x EXCEPT !.item = item]

\* The tag is parsed and pushed into the tag on top unless its attributes are
\* refused
Checked(x, err) == IF err = "" THEN x ELSE Failed(x, err)

\* <else/> inside <if>
ElseFlagged(x) ==
    IF Top(x.stack).else_flag THEN Failed(x, "multiple else inside if tag")
    ELSE [x EXCEPT !.stack[Len(x.stack)].else_flag = TRUE, !.stack[Len(x.stack)].marker = 0]

\* The executable is parsed and pushed unless its attributes are refused
ExecutableParsed(x, child, err) == IF err = "" THEN ExecutablePushed(x, child) ELSE Failed(x, err)

\* <elif cond=../> inside <if>
ElifParsed(x, err) ==
    IF err = "" THEN [x EXCEPT !.stack[Len(x.stack)] = Branched(@)] ELSE Failed(x, err)

\* Fsm::parse, Event::Empty(tag)
FsmEmpty(x, e) ==
    CASE e.name = "data" /\ TopIs(x.stack, {"datamodel"}) ->
            Kept([x EXCEPT !.type_annotation = None], DataParse(e.attrs, x.type_annotation, e.script))
      [] e.name = "state" /\ TopIs(x.stack, {"scxml"}) ->
            IF StateParse(e.attrs) = ""
            THEN StatePushed(x, State([Tag("state") EXCEPT !.id = e.id]))
            ELSE Failed(x, StateParse(e.attrs))
      [] e.name = "transition" /\ TopIs(x.stack, {"state"}) -> Checked(x, TransitionParse(e.attrs, e.script))
      [] e.name = "raise" /\ TopIs(x.stack, Executables) -> ExecutableParsed(x, "raise", parse_raise(e.attrs))
      [] e.name = "send" /\ TopIs(x.stack, Executables) -> ExecutableParsed(x, "send", SendParse(e.attrs, e.script))
      [] e.name = "assign" /\ TopIs(x.stack, Executables) -> ExecutableParsed(x, "assign", parse_assign(e.attrs, e.script))
      [] e.name = "param" /\ TopIs(x.stack, {"send"}) ->
            Kept([x EXCEPT !.type_annotation = None], ParamParse(e.attrs, x.type_annotation, e.script))
      [] e.name = "else" /\ TopIs(x.stack, {"if"}) -> ElseFlagged(x)
      [] e.name = "elif" /\ TopIs(x.stack, {"if"}) -> ElifParsed(x, IfParse(e.attrs, e.script))
      [] OTHER -> x

\* Fsm::parse, Event::Comment(comment): type_annotation = parse_comment(..)?
Annotated(x, annotation) ==
    IF annotation.k = "Err" THEN [x EXCEPT !.result = annotation]
    ELSE [x EXCEPT !.type_annotation = annotation]

FsmComment(x, e) == Annotated(x, parse_comment(e.words))

\* Fsm::parse, Event::Eof
FsmEof(x) == Failed(x, "UnclosedTags")

\* The parser before it handles the next event
Fresh(x) == [x EXCEPT !.item = None]

\* What the reader has handed over: the event is in the buffer; a tag has, or
\* has not, been read since the last comment
Read(x, e) ==
    [x EXCEPT !.buf = e,
              !.tag_since_comment =
                    IF e.ev = "Comment" THEN FALSE
                    ELSE IF e.ev \in {"Start", "End", "Empty"} THEN TRUE
                    ELSE @]

\* Process { moc }: the model of computation read from the file of the process
Process(moc) == [moc |-> moc]

\* process_list.get(id).is_some()
Declared(process_list, id) == \E p \in process_list : p.id = id

\* HashMap::insert: the entry of the key, if any, is replaced
insert(process_list, id, process) ==
    { p \in process_list : p.id # id } \cup { [id |-> id, process |-> process] }

\* The attributes and the file of a <process> tag: the error they raise, if any
ProcessError(e) ==
    IF AttrError(e.attrs, {"id", "moc", "path"}, {"id", "path", "moc"}) # ""
    THEN AttrError(e.attrs, {"id", "moc", "path"}, {"id", "path", "moc"})
    ELSE IF e.moc \notin {"fsm", "bt"} THEN "UnknownMoC"
    ELSE IF ~e.whole THEN "Reader"
    ELSE ""

\* parse_process whose insert is not looked at
parse_processUnchecked(x, e) ==
    IF ProcessError(e) # "" THEN Failed(x, ProcessError(e))
    ELSE [x EXCEPT !.process_list = insert(@, e.id, Process(e.moc))]

\* scan_fmt_xml, Parser::parse_process
parse_process(x, e) ==
    IF ProcessError(e) # "" THEN Failed(x, ProcessError(e))
    ELSE IF Declared(x.process_list, e.id)
    THEN [x EXCEPT !.process_list = insert(@, e.id, Process(e.moc)),
                   !.result = AlreadyDeclared(e.id)]
    ELSE [x EXCEPT !.process_list = insert(@, e.id, Process(e.moc))]

\* scan_fmt_xml, Parser::parse_types: whole = the file at path parses
parse_types(e) ==
    IF AttrError(e.attrs, {"path"}, {"path"}) # ""
    THEN AttrError(e.attrs, {"path"}, {"path"})
    ELSE IF ~e.whole THEN "Reader"
    ELSE ""

\* scan_fmt_xml, Parser::parse, Event::Start(tag)
XmlStart(x, e) ==
    CASE e.name = "specification" /\ x.stack = <<>> -> Push(x, e.name)
      [] e.name \in {"model", "properties"} /\ TopIs(x.stack, {"specification"}) -> Push(x, e.name)
      [] e.name = "processList" /\ TopIs(x.stack, {"model"}) -> Push(x, e.name)
      [] OTHER -> Skipped(x, e)

\* Event::End(tag) of both Parser::parse: the tag popped must bear the name
PoppedBy(x, matches) ==
    IF matches THEN [x EXCEPT !.stack = Popped(@)]
    ELSE [x EXCEPT !.stack = Popped(@), !.result = ParserError("UnexpectedEndTag")]

XmlEnd(x, e) == PoppedBy(x, x.stack # <<>> /\ Top(x.stack).tag = e.name)

\* scan_fmt_xml, Parser::parse, Event::Empty(tag)
XmlEmpty(x, e) ==
    CASE e.name = "process" /\ TopIs(x.stack, {"processList"}) -> parse_process(x, e)
      [] e.name = "types" /\ TopIs(x.stack, {"model"}) -> Checked(x, parse_types(e))
      [] OTHER -> x

\* scan_fmt_xml, Parser::parse, Event::Eof
XmlEof(x) ==
    IF x.stack # <<>> THEN Failed(x, "UnclosedTags") ELSE [x EXCEPT !.result = Parsed]

\* src/parser.rs: the tag each tag is recognised under ("" = under none)
ScanParent(name) ==
    CASE name = "specification" -> ""
      [] name \in {"model", "properties"} -> "specification"
      [] name \in {"componentList", "blackBoard", "skillList", "btToSkillInterface", "bt"} -> "model"
      [] name = "skillDeclaration" -> "skillList"
      [] name = "skillDefinition" -> "skillDeclaration"
      [] name = "component" -> "componentList"
      [] name \in {"structList", "enumeration", "service"} -> "component"
      [] name = "struct" -> "structList"
      [] name = "structData" -> "struct"
      [] name = "enum" -> "enumeration"
      [] name = "function" -> "service"

ScanTags ==
    { "specification", "model", "properties", "componentList", "blackBoard", "skillList",
      "btToSkillInterface", "bt", "skillDeclaration", "skillDefinition", "component",
      "structList", "enumeration", "service", "struct", "structData", "enum", "function" }

\* src/parser.rs, From<ConvinceTag> for &str: the name an end tag must bear
ScanEndName(tag) ==
    CASE tag = "btToSkillInterface" -> "btBoSkillInterface"
      [] tag = "structList" -> "stuctList"
      [] tag = "structData" -> "struct_data"
      [] OTHER -> tag

\* src/parser.rs: what the attributes of a start tag lead to: "" = the tag is
\* pushed, "todo" = the parser reaches todo!(), else the error returned.
\* whole = the file at path parses
ScanAttrs(e) ==
    CASE e.name = "skillDeclaration" -> AttrError(e.attrs, {"id", "interface"}, {})
      [] e.name = "skillDefinition" ->
            IF "type" \in e.attrs THEN "todo"
            ELSE IF AttrError(e.attrs, {"moc", "path"}, {"path"}) # ""
            THEN AttrError(e.attrs, {"moc", "path"}, {"path"})
            ELSE IF ~e.whole THEN "Reader" ELSE ""
      [] e.name = "bt" -> IF "file" \in e.attrs THEN "todo" ELSE ""
      [] e.name \in {"component", "struct"} -> IF "id" \in e.attrs THEN "todo" ELSE ""
      [] e.name = "structData" -> IF "fieldId" \in e.attrs THEN "todo" ELSE ""
      [] OTHER -> ""

ScanOpened(x, tag, err) ==
    IF err = "todo" THEN [x EXCEPT !.result = Aborted("not yet implemented")]
    ELSE Opened(x, tag, err)

\* src/parser.rs, Parser::parse, Event::Start(tag)
ScanStart(x, e) ==
    IF /\ e.name \in ScanTags
       /\ IF ScanParent(e.name) = "" THEN x.stack = <<>> ELSE TopIs(x.stack, {ScanParent(e.name)})
    THEN ScanOpened(x, e.name, ScanAttrs(e))
    ELSE Skipped(x, e)

\* src/parser.rs, Parser::parse, Event::End(tag)
ScanEnd(x, e) == PoppedBy(x, x.stack # <<>> /\ ScanEndName(Top(x.stack).tag) = e.name)

\* src/parser.rs, Parser::parse, Event::Eof: the model is built and returned
ScanEof(x) == [x EXCEPT !.result = Parsed]

\* CData, PI, DocType (and Decl in scan_fmt_xml): todo!()
Todo(x) == [x EXCEPT !.result = Aborted("not yet implemented")]

(***************************************************************************)
(* SpecXml: one of the three parsers reads events until it returns.        *)
(***************************************************************************)
FsmParser == "Fsm::parse"
XmlParser == "scan_fmt_xml::Parser::parse"
ScanParser == "scan::Parser::parse"

TypeComment == CommentOf(<< <<"TYPE">>, <<"x", CommentType>> >>)

Scripts == { "expression", "statement", "empty", "malformed" }

FsmInputs ==
    { StartOf("scxml", {"name", "initial"}), StartOf("scxml", {"name", "initial", "xmlns"}),
      StartOf("scxml", {"initial"}), StartOf("datamodel", {}),
      StartOf("state", {"id"}), StartOf("state", {"id", "bar"}),
      StartOf("transition", {"target"}), StartOf("transition", {"event"}),
      StartOf("send", {"event"}), StartOf("if", {"cond"}),
      StartOf("onentry", {}), StartOf("onexit", {}),
      StartOf("foo", {}), Unended("foo") }
    \cup { EndOf(n) : n \in {"scxml", "datamodel", "state", "transition", "send", "if",
                             "onentry", "onexit", "foo"} }
    \cup { EmptyOf("data", {"id"}), EmptyOf("data", {"id", "type"}), EmptyOf("data", {"id", "bar"}),
           EmptyOf("param", {"name", "expr"}), EmptyOf("param", {"name", "expr", "type"}),
           EmptyOf("param", {"name"}),
           EmptyOf("state", {"id"}), EmptyOf("transition", {"target"}),
           EmptyOf("raise", {"event"}), EmptyOf("send", {"event"}),
           EmptyOf("assign", {"location", "expr"}),
           EmptyOf("else", {}), EmptyOf("elif", {"cond"}), EmptyOf("foo", {}) }
    \cup { Scripted(e, script) :
                e \in { EmptyOf("data", {"id", "type", "expr"}), StartOf("transition", {"target", "cond"}),
                        EmptyOf("assign", {"location", "expr"}), StartOf("if", {"cond"}),
                        EmptyOf("elif", {"cond"}), EmptyOf("send", {"event", "targetexpr"}),
                        EmptyOf("send", {"event", "target", "targetexpr"}),
                        EmptyOf("param", {"name", "location"}) },
                script \in Scripts }
    \cup { TypeComment, CommentOf(<< <<"note">> >>), CommentOf(<< <<"TYPE">>, <<"x">> >>),
           CommentOf(<< <<"TYPE">> >>), CommentOf(<<>>) }
    \cup { OtherEvent(ev) : ev \in {"Text", "Decl", "CData", "PI", "DocType", "Eof"} }

ProcessIds == {"a", "b"}

XmlInputs ==
    { StartOf(n, {}) : n \in {"specification", "model", "properties", "processList", "foo"} }
    \cup { Unended("foo") }
    \cup { EndOf(n) : n \in {"specification", "model", "properties", "processList", "foo"} }
    \cup { ProcessOf(id, moc, {"id", "moc", "path"}, TRUE) : id \in ProcessIds, moc \in {"fsm", "bt"} }
    \cup { ProcessOf("a", "fsm", {"id", "moc", "path", "bar"}, TRUE),
           ProcessOf("a", "", {"id", "path"}, TRUE),
           ProcessOf("a", "petri", {"id", "moc", "path"}, TRUE),
           ProcessOf("a", "fsm", {"id", "moc", "path"}, FALSE),
           EmptyOf("types", {"path"}), EmptyOf("types", {"path", "bar"}), EmptyOf("foo", {}) }
    \cup { TypeComment }
    \cup { OtherEvent(ev) : ev \in {"Text", "Decl", "CData", "PI", "DocType", "Eof"} }

ScanInputs ==
    { StartOf(n, {}) : n \in {"specification", "model", "properties", "skillList",
                              "btToSkillInterface", "componentList", "component",
                              "structList", "struct", "foo"} }
    \cup { Unended("foo"),
           StartOf("skillDeclaration", {"id"}), StartOf("skillDeclaration", {"id", "bar"}),
           StartOf("skillDefinition", {"moc", "path"}), StartOf("skillDefinition", {"moc"}),
           StartOf("component", {"id"}), StartOf("component", {"bar"}) }
    \cup { EndOf(n) : n \in {"specification", "model", "properties", "skillList",
                             "btToSkillInterface", "btBoSkillInterface",
                             "skillDeclaration", "skillDefinition", "componentList",
                             "component", "structList", "stuctList", "struct", "foo"} }
    \cup { EmptyOf("foo", {}), TypeComment }
    \cup { OtherEvent(ev) : ev \in {"Text", "Decl", "CData", "Eof"} }

InitXml ==
    /\ TypeIdle
    /\ ExprIdle
    /\ xml \in { Reader(FsmParser), Reader(XmlParser), Reader(ScanParser) }

\* The executables held by the branches
RECURSIVE Total(_)
Total(branches) == IF branches = <<>> THEN 0 ELSE Len(Head(branches)) + Total(Tail(branches))

\* The executables held by the states
RECURSIVE Entered(_)
Entered(states) ==
    IF states = {} THEN 0
    ELSE LET s == CHOOSE s \in states : TRUE
         IN  Len(s.on_entry) + Len(s.on_exit) + Entered(states \ {s})

\* The executables and the <elif> branches held by the tags of the stack
RECURSIVE Held(_)
Held(stack) ==
    IF stack = <<>> THEN 0
    ELSE Held(Popped(stack)) + Len(Top(stack).else) + Total(Top(stack).elif)
         + (IF Len(Top(stack).elif) > 1 THEN Len(Top(stack).elif) - 1 ELSE 0)
         + Len(Top(stack).execs) + Len(Top(stack).on_entry) + Len(Top(stack).on_exit)
         + Entered(Top(stack).states)

\* No tag of the stack holds an executable or an <elif> branch: the documents
\* read where the parsers are given every kind of event (SpecXml)
Hollow(stack) == Held(stack) = 0

\* One turn of the loop of parser: the reader hands over e, the parser turns
\* into handled
Turn(parser, e, handled) ==
    /\ xml.parser = parser
    /\ xml.result = Parsing
    /\ e.ev = "Start" => Len(xml.stack) < MaxDepth
    /\ Hollow(handled.stack)
    /\ xml' = Read(handled, e)
    /\ UNCHANGED <<ty, dv, expr, env, res, out, overflowChecks, model, cs, drv>>

FsmStartTag == \E e \in FsmInputs : e.ev = "Start" /\ Turn(FsmParser, e, FsmStart(Fresh(xml), e))
FsmEndTag == \E e \in FsmInputs : e.ev = "End" /\ Turn(FsmParser, e, FsmEnd(Fresh(xml), e))
FsmEmptyTag == \E e \in FsmInputs : e.ev = "Empty" /\ Turn(FsmParser, e, FsmEmpty(Fresh(xml), e))
FsmCommentRead ==
    \E e \in FsmInputs : e.ev = "Comment" /\ Turn(FsmParser, e, FsmComment(Fresh(xml), e))
\* Event::Text, Event::Decl: continue
FsmIgnored == \E e \in FsmInputs : e.ev \in {"Text", "Decl"} /\ Turn(FsmParser, e, Fresh(xml))
\* Event::CData, Event::PI, Event::DocType: not supported
FsmUnsupported ==
    \E e \in FsmInputs :
        e.ev \in {"CData", "PI", "DocType"} /\ Turn(FsmParser, e, Failed(Fresh(xml), "not supported"))
FsmEofRead == \E e \in FsmInputs : e.ev = "Eof" /\ Turn(FsmParser, e, FsmEof(Fresh(xml)))

XmlStartTag == \E e \in XmlInputs : e.ev = "Start" /\ Turn(XmlParser, e, XmlStart(Fresh(xml), e))
XmlEndTag == \E e \in XmlInputs : e.ev = "End" /\ Turn(XmlParser, e, XmlEnd(Fresh(xml), e))
XmlEmptyTag == \E e \in XmlInputs : e.ev = "Empty" /\ Turn(XmlParser, e, XmlEmpty(Fresh(xml), e))
\* Event::Text, Event::Comment: continue
XmlIgnored == \E e \in XmlInputs : e.ev \in {"Text", "Comment"} /\ Turn(XmlParser, e, Fresh(xml))
\* Event::CData, Event::Decl, Event::PI, Event::DocType: todo!()
XmlTodo ==
    \E e \in XmlInputs :
        e.ev \in {"CData", "Decl", "PI", "DocType"} /\ Turn(XmlParser, e, Todo(Fresh(xml)))
XmlEofRead == \E e \in XmlInputs : e.ev = "Eof" /\ Turn(XmlParser, e, XmlEof(Fresh(xml)))

ScanStartTag == \E e \in ScanInputs : e.ev = "Start" /\ Turn(ScanParser, e, ScanStart(Fresh(xml), e))
ScanEndTag == \E e \in ScanInputs : e.ev = "End" /\ Turn(ScanParser, e, ScanEnd(Fresh(xml), e))
\* Event::Empty, Event::Text, Event::Comment: skipped with a warning;
\* Event::Decl: parse_xml_declaration
ScanIgnored ==
    \E e \in ScanInputs : e.ev \in {"Empty", "Text", "Comment", "Decl"} /\ Turn(ScanParser, e, Fresh(xml))
\* Event::CData, Event::PI, Event::DocType: todo!()
ScanTodo == \E e \in ScanInputs : e.ev = "CData" /\ Turn(ScanParser, e, Todo(Fresh(xml)))
ScanEofRead == \E e \in ScanInputs : e.ev = "Eof" /\ Turn(ScanParser, e, ScanEof(Fresh(xml)))

NextXml ==
    \/ FsmStartTag \/ FsmEndTag \/ FsmEmptyTag \/ FsmCommentRead
    \/ FsmIgnored \/ FsmUnsupported \/ FsmEofRead
    \/ XmlStartTag \/ XmlEndTag \/ XmlEmptyTag \/ XmlIgnored \/ XmlTodo \/ XmlEofRead
    \/ ScanStartTag \/ ScanEndTag \/ ScanIgnored \/ ScanTodo \/ ScanEofRead

SpecXml == InitXml /\ [][NextXml]_vars

(***************************************************************************)
(* SpecDoc: the FSM parser reads the tags of an SCXML document whose       *)
(* attributes are the expected ones, nested up to MaxNesting.              *)
(***************************************************************************)
DocInputs ==
    { StartOf("scxml", {"name", "initial"}), StartOf("state", {"id"}),
      StartOf("transition", {"target"}), StartOf("send", {"event"}), StartOf("if", {"cond"}) }
    \cup { EndOf(n) : n \in {"scxml", "state", "transition", "send", "if"} }
    \cup { EmptyOf("raise", {"event"}), EmptyOf("else", {}), EmptyOf("elif", {"cond"}) }

InitDoc ==
    /\ TypeIdle
    /\ ExprIdle
    /\ xml = Reader(FsmParser)

\* One turn of the loop of Fsm::parse on a tag of the document
DocTurn(e, handled) ==
    /\ xml.result = Parsing
    /\ e.ev = "Start" => Len(xml.stack) < MaxNesting
    /\ Held(handled.stack) <= MaxItems
    /\ xml' = Read(handled, e)
    /\ UNCHANGED <<ty, dv, expr, env, res, out, overflowChecks, model, cs, drv>>

DocStartTag == \E e \in DocInputs : e.ev = "Start" /\ DocTurn(e, FsmStart(Fresh(xml), e))
DocEndTag == \E e \in DocInputs : e.ev = "End" /\ DocTurn(e, FsmEnd(Fresh(xml), e))
DocEmptyTag == \E e \in DocInputs : e.ev = "Empty" /\ DocTurn(e, FsmEmpty(Fresh(xml), e))

NextDoc == DocStartTag \/ DocEndTag \/ DocEmptyTag

SpecDoc == InitDoc /\ [][NextDoc]_vars

(***************************************************************************)
(* SpecStates: the FSM parser reads the states of an SCXML document, with  *)
(* their ids and the executables of their <onentry> and <onexit>.          *)
(***************************************************************************)
StateIds == {"a", "b"}

StateInputs ==
    { StartOf("scxml", {"name", "initial"}), StartOf("onentry", {}), StartOf("onexit", {}),
      EmptyOf("raise", {"event"}) }
    \cup { [StartOf("state", {"id"}) EXCEPT !.id = id] : id \in StateIds }
    \cup { [EmptyOf("state", {"id"}) EXCEPT !.id = id] : id \in StateIds }
    \cup { EndOf(n) : n \in {"scxml", "state", "onentry", "onexit"} }

StatesStartTag == \E e \in StateInputs : e.ev = "Start" /\ DocTurn(e, FsmStart(Fresh(xml), e))
StatesEndTag == \E e \in StateInputs : e.ev = "End" /\ DocTurn(e, FsmEnd(Fresh(xml), e))
StatesEmptyTag == \E e \in StateInputs : e.ev = "Empty" /\ DocTurn(e, FsmEmpty(Fresh(xml), e))

NextStates == StatesStartTag \/ StatesEndTag \/ StatesEmptyTag

SpecStates == InitDoc /\ [][NextStates]_vars

(***************************************************************************)
(* The claims about the XML front ends.                                    *)
(***************************************************************************)
\* The parser has just turned a <data> or <param> into a Data or Param
ItemParsed == xml # None /\ xml.item # None

\* C17: for <data> and for <param>, a type attribute on the element
\* determines its type; the type of a TYPE comment is used only when the
\* element has no type attribute.
C17_AttributeDeterminesType ==
    ItemParsed =>
        /\ "type" \in xml.buf.attrs => xml.item.omg_type = Some(AttrType)
        /\ xml.item.omg_type = Some(CommentType) => "type" \notin xml.buf.attrs

\* A <data> or <param> is parsed: it has the type of a comment only if no tag
\* was read since that comment
C18Step ==
    (xml' # xml /\ xml'.item # None /\ xml'.item.omg_type = Some(CommentType)
        /\ "type" \notin xml'.buf.attrs)
        => ~xml.tag_since_comment

\* C18: a TYPE comment annotates only the <data> or <param> that immediately
\* follows it: once another start, end or empty tag has been read, a later
\* <data> or <param> does not receive the annotation, and a comment annotates
\* at most one element.
C18_AnnotationImmediate == [][C18Step]_vars

\* A tag no parser knows, or a tag with an attribute none knows for it
Unknown(e) ==
    /\ e.ev \in {"Start", "Empty"}
    /\ e.name = "foo" \/ "bar" \in e.attrs \/ "xmlns" \in e.attrs

\* C19: every unknown or out-of-context tag and every unknown attribute of a
\* recognised tag makes the parser return an error; none is skipped.
C19_UnknownRejected ==
    (xml # None /\ xml.buf # None /\ Unknown(xml.buf)) => xml.result.k = "Err"

\* The end of the input with a tag open is UnclosedTags; success leaves no tag
\* open
C20State ==
    xml # None =>
        /\ (xml.buf # None /\ xml.buf.ev = "Eof" /\ xml.stack # <<>>)
                => xml.result = ParserError("UnclosedTags")
        /\ xml.result = Parsed => xml.stack = <<>>

\* An end tag that does not bear the name of the innermost open tag is
\* UnexpectedEndTag
C20Step ==
    (xml' # xml /\ xml'.buf.ev = "End"
        /\ (xml.stack = <<>> \/ Top(xml.stack).tag # xml'.buf.name))
        => xml'.result = ParserError("UnexpectedEndTag")

\* C20: if the input ends while a recognised tag is open, parsing fails with
\* UnclosedTags; a parser succeeds only if every tag it opened was closed,
\* last opened first; an end tag that does not match the innermost open tag
\* yields UnexpectedEndTag.
C20_TagsClosed == [][C20Step]_vars /\ []C20State

\* scan_fmt_xml's parser reads the <process> tag e under <processList>
ProcessRead(e) ==
    /\ xml' # xml
    /\ xml.parser = XmlParser
    /\ TopIs(xml.stack, {"processList"})
    /\ xml'.buf = e
    /\ e.ev = "Empty" /\ e.name = "process"

\* e bears an id that a <process> read before declared
Redeclares(e) == "id" \in e.attrs /\ Declared(xml.process_list, e.id)

\* Every id of the list is bound once
BoundOnce(process_list) ==
    \A p \in process_list, q \in process_list : p.id = q.id => p = q

\* While parsing does not fail, the list keeps what was declared
C21Kept == xml'.result.k # "Err" => xml.process_list \subseteq xml'.process_list

C21Refused ==
    \A e \in XmlInputs : (ProcessRead(e) /\ Redeclares(e)) => xml'.result = AlreadyDeclared(e.id)

\* C21: a <process> element whose id was already declared by an earlier
\* <process> in the same model file makes parsing fail with AlreadyDeclared
\* naming that id; a process list returned by a successful parse contains
\* each id exactly once, bound to the first and only declaration.
C21_RedeclaredAlreadyDeclared ==
    [][C21Refused /\ C21Kept]_vars /\ [](xml.result = Parsed => BoundOnce(xml.process_list))

C21Fails ==
    \A e \in XmlInputs :
        (ProcessRead(e) /\ Redeclares(e)) =>
            /\ xml'.result.k = "Err"
            /\ ProcessError(e) = "" => xml'.result = AlreadyDeclared(e.id)
            /\ ProcessError(e) # "" => xml'.result = ParserError(ProcessError(e))

\* C21 (amended): a <process> element under <processList> whose id was
\* already declared makes parsing fail: with AlreadyDeclared naming that id
\* when its attributes are the known ones, its moc is fsm or bt and its file
\* parses, with the error of the attributes, moc or file otherwise; a process
\* list returned by a successful parse contains each id exactly once, bound
\* to the first and only declaration.
C21_RedeclaredFails ==
    [][C21Fails /\ C21Kept]_vars /\ [](xml.result = Parsed => BoundOnce(xml.process_list))

\* b and a are declared, a is declared again: AlreadyDeclared(a)
C21_Witness ==
    /\ xml # None /\ xml.parser = XmlParser
    /\ xml.result = AlreadyDeclared("a")
    /\ xml.buf.name = "process" /\ xml.buf.id = "a"
    /\ Declared(xml.process_list, "b")

\* The tag e read in x is one whose expression attribute Fsm::parse hands to
\* boa_parser: it is in its place, its attributes are accepted and the
\* attribute is present
ExpressionSite(x, e) ==
    \/ /\ e.ev = "Empty" /\ e.name = "data" /\ TopIs(x.stack, {"datamodel"})
       /\ "expr" \in e.attrs
       /\ DataParse(e.attrs, x.type_annotation, "expression").k = "Item"
    \/ /\ e.name = "transition" /\ TopIs(x.stack, {"state"})
       /\ "cond" \in e.attrs
       /\ TransitionParse(e.attrs, "expression") = ""
    \/ /\ e.ev = "Empty" /\ e.name = "assign" /\ TopIs(x.stack, Executables)
       /\ parse_assign(e.attrs, "expression") = ""
    \/ /\ \/ e.ev = "Start" /\ e.name = "if" /\ AnyExecutable(x.stack)
          \/ e.ev = "Empty" /\ e.name = "elif" /\ TopIs(x.stack, {"if"})
       /\ IfParse(e.attrs, "expression") = ""
    \/ /\ e.name = "send"
       /\ IF e.ev = "Start" THEN AnyExecutable(x.stack) ELSE TopIs(x.stack, Executables)
       /\ "targetexpr" \in e.attrs /\ "target" \notin e.attrs
       /\ SendParse(e.attrs, "expression") = ""
    \/ /\ e.ev = "Empty" /\ e.name = "param" /\ TopIs(x.stack, {"send"})
       /\ ParamParse(e.attrs, x.type_annotation, "expression").k = "Item"

\* Fsm::parse reads a tag whose expression attribute does not hold an
\* expression statement: it returns an error
C22Step ==
    \A e \in FsmInputs :
        ( /\ xml' # xml
          /\ xml.parser = FsmParser
          /\ xml'.buf = e
          /\ e.ev \in {"Start", "Empty"}
          /\ e.script # "expression"
          /\ ExpressionSite(xml, e) )
        => xml'.result.k = "Err"

\* C22: when an embedded expression attribute (data expr, transition cond,
\* assign expr, if/elif cond, send targetexpr, param expr/location) fails to
\* parse, contains no statement, or is not an expression statement, the FSM
\* parser returns a parse error to its caller; it never aborts the process.
C22_ScriptErrorsReturned ==
    [][C22Step]_vars /\ []((xml.parser = FsmParser) => xml.result.k # "Panic")

\* The types of the operands of a checked Sum or Mult, each from its own type
\* check
OperandTypes == [i \in 1..Len(expr.es) |-> ExprType(expr.es[i])]

\* The first operand whose type check fails
FirstFailing(ts) == Min({ i \in 1..Len(ts) : ~ts[i].ok })

SumMultTyped(ts) ==
    IF \E i \in 1..Len(ts) : ~ts[i].ok THEN res.type = ts[FirstFailing(ts)]
    ELSE IF \A i \in 1..Len(ts) : ts[i].t = Integer THEN res.type = Ok(Integer)
    ELSE IF \A i \in 1..Len(ts) : ts[i].t \in {Integer, Float} THEN res.type = Ok(Float)
    ELSE res.type = Err("TypeMismatch")

\* C23: type(Sum(es)) and type(Mult(es)) are Integer when every operand has
\* type Integer (including the empty list), Float when every operand is
\* Integer or Float and at least one is Float, and TypeMismatch when any
\* operand has another type; an error from an operand's own type check is
\* returned unchanged.
C23_SumMultType ==
    (res # None /\ expr.op \in {"Sum", "Mult"}) => SumMultTyped(OperandTypes)

\* A Mult of an Integer and a Float has been type-checked: Float
C23_Witness ==
    /\ res # None
    /\ expr.op = "Mult" /\ Len(expr.es) = 2
    /\ ExprType(expr.es[1]) = Ok(Integer) /\ ExprType(expr.es[2]) = Ok(Float)
    /\ res.type = Ok(Float)

\* A comparison whose two operands pass their own type check has been checked
ComparisonChecked ==
    /\ res # None
    /\ expr.op \in {"Equal", "GreaterEq", "LessEq", "Greater", "Less"}
    /\ ExprType(expr.l).ok /\ ExprType(expr.r).ok

\* The operand typings the claim accepts for the operator op
Comparable(op, t0, t1) ==
    IF op \in {"Equal", "GreaterEq", "LessEq"}
    THEN t0 = t1 /\ t0 \in {Integer, Boolean}
    ELSE t0 \in {Integer, Float} /\ t1 \in {Integer, Float}

RECURSIVE VarSeq(_)
RECURSIVE VarSeqAll(_)
VarSeqAll(es) == IF es = <<>> THEN <<>> ELSE VarSeq(Head(es)) \o VarSeqAll(Tail(es))
VarSeq(e) ==
    CASE e.op = "Const" -> <<>>
      [] e.op = "Var" -> << <<e.v, e.t>> >>
      [] e.op \in NaryOps -> VarSeqAll(e.es)
      [] e.op \in UnaryOps \cup {"Component"} -> VarSeq(e.e)
      [] e.op \in BinaryOps -> VarSeq(e.l) \o VarSeq(e.r)

\* The resolver does not give the variable p = <<v, t>> the type t
Offending(p, types) == types[p[1]] # p[2]

\* The context of an expression whose variables are vs, in order
ContextOf(vs, types) ==
    IF \A i \in 1..Len(vs) : ~Offending(vs[i], types) THEN Ok(Unit)
    ELSE IF types[vs[Min({ i \in 1..Len(vs) : Offending(vs[i], types) })][1]] = None
    THEN Err("UnknownVar")
    ELSE Err("TypeMismatch")

\* C25: context(e, resolver) returns Ok exactly when every Var(v, t) occurring
\* anywhere in e satisfies resolver(v) = Some(t); otherwise it returns the
\* error of the first offending variable in left-to-right depth-first order:
\* UnknownVar when resolver(v) is None, TypeMismatch when resolver(v) is a
\* different type.
C25_ContextFirstOffender ==
    res # None => res.context = ContextOf(VarSeq(expr), res.vars)

\* Two offending variables, the first of another type, the second unknown:
\* TypeMismatch
C25_Witness ==
    /\ res # None
    /\ Len(VarSeq(expr)) = 2
    /\ res.vars[VarSeq(expr)[1][1]] \notin {None, VarSeq(expr)[1][2]}
    /\ res.vars[VarSeq(expr)[2][1]] = None
    /\ res.context = Err("TypeMismatch")

\* The value of the sub-expression e under the resolver of the last evaluation
ValueOf(e) == Eval(e, env).v

IsList(v) == v.k = "List"

\* Append(l, x) evaluated: l and x are the values of its operands
Appended(l, x) ==
    IF IsList(l) /\ ~IsPanic(x) /\ ValType(x) = l.t
    THEN res.ev.v = VList(l.t, l.vs \o <<x>>)
    ELSE IsPanic(res.ev.v)

\* Truncate(l) evaluated: l is the value of its operand
Truncated(l) ==
    IF IsList(l) /\ l.vs # <<>>
    THEN res.ev.v = VList(l.t, SubSeq(l.vs, 1, Len(l.vs) - 1))
    ELSE IsPanic(res.ev.v)

\* C26: at evaluation, Append(l, x) fails hard unless l evaluates to a list
\* and the type of x's value equals the list's element type, and Truncate(l)
\* fails hard when l evaluates to an empty list; otherwise Append adds x as
\* the last element, Truncate removes exactly the last element, and Len
\* returns the number of elements, so Len(Append(Append(empty, 3), 5)) = 2
\* and Truncate(Append(l, x)) = l.
C26_ListOperations ==
    res # None =>
        /\ expr.op = "Append" => Appended(ValueOf(expr.l), ValueOf(expr.r))
        /\ expr.op = "Truncate" => Truncated(ValueOf(expr.e))
        /\ (expr.op = "Len" /\ IsList(ValueOf(expr.e)))
                => res.ev.v = VInteger(Len(ValueOf(expr.e).vs))
        /\ expr = S3Expr => res.ev.v = VInteger(2)
        /\ (expr.op = "Truncate" /\ expr.e.op = "Append" /\ ~IsPanic(res.ev.v))
                => res.ev.v = ValueOf(expr.e.l)

\* Truncate(Append([3], x)) has been evaluated, x resolved to an Integer: [3]
C26_Witness ==
    /\ res # None
    /\ expr.op = "Truncate" /\ expr.e.op = "Append"
    /\ expr.e.r.op = "Var"
    /\ res.ev.v = VList(Integer, <<VInteger(3)>>)

\* The last evaluation called the resolver for a variable of expr and got a
\* value that is not of the type the Var node declares
PoisonedCall ==
    \E p \in VarsOf(expr) :
        /\ p[1] \in Range(res.ev.calls)
        /\ ValType(env[p[1]]) # p[2]

\* C27: the compiled evaluator never returns a value produced from an operand
\* of the wrong type: whenever a sub-expression Var(v, t) is evaluated and the
\* resolver supplies a value whose type differs from t, evaluation fails hard
\* instead of returning that value or a result computed from it.
C27_NoPoisonedValue ==
    (res # None /\ PoisonedCall) => IsPanic(res.ev.v)

\* Implies(a, b) has been evaluated and a did not fail
ImpliesEvaluated ==
    /\ res # None
    /\ expr.op = "Implies"
    /\ ~IsPanic(ValueOf(expr.l))

IsBoolean(v) == v.k = "Boolean"

\* C28: compiled Implies(a, b) evaluates both operands on every evaluation
\* (no short-circuit) and returns (not a) or b; a consequent that fails or is
\* not Boolean makes the evaluation fail even when a evaluates to false.
C28_ImpliesEager ==
    ImpliesEvaluated =>
        /\ res.ev.calls = Eval(expr.l, env).calls \o Eval(expr.r, env).calls
        /\ IF IsBoolean(ValueOf(expr.l)) /\ IsBoolean(ValueOf(expr.r))
           THEN res.ev.v = VBoolean(~ValueOf(expr.l).b \/ ValueOf(expr.r).b)
           ELSE IsPanic(res.ev.v)

\* Implies(false, b) has been evaluated for a b that calls the resolver and
\* fails: the call is made and the evaluation fails
C28_Witness ==
    /\ ImpliesEvaluated
    /\ ValueOf(expr.l) = VBoolean(FALSE)
    /\ Eval(expr.r, env).calls # <<>>
    /\ IsPanic(ValueOf(expr.r))
    /\ res.ev.calls # <<>>
    /\ IsPanic(res.ev.v)

\* -|n|, which every i32 has
NegAbs(n) == IF n < 0 THEN n ELSE -n

\* r is the remainder of the truncated division of a by b # 0: it is zero or
\* has the sign of a, |r| < |b|, and b divides a - r
TruncatedRemainder(a, b, r) ==
    /\ r = 0 \/ (r < 0) = (a < 0)
    /\ NegAbs(b) < NegAbs(r)
    /\ (a - r) % (-NegAbs(b)) = 0

\* Mod(a, b) has been evaluated over two Integers
ModEvaluated ==
    /\ res # None
    /\ expr.op = "Mod"
    /\ ValueOf(expr.l).k = "Integer" /\ ValueOf(expr.r).k = "Integer"

\* C29: for Integer operands a and b with b # 0 (and not a = -2^31 with
\* b = -1), compiled Mod(a, b) returns the remainder of truncated division
\* r = a - b*trunc(a/b), so r is zero or has the sign of a and |r| < |b|; for
\* b = 0 evaluation returns no value.
C29_ModTruncated ==
    ModEvaluated =>
        IF ValueOf(expr.r).i = 0 THEN IsPanic(res.ev.v)
        ELSE IF ValueOf(expr.l).i = I32Min /\ ValueOf(expr.r).i = -1 THEN TRUE
        ELSE /\ res.ev.v.k = "Integer"
             /\ TruncatedRemainder(ValueOf(expr.l).i, ValueOf(expr.r).i, res.ev.v.i)

\* Mod(-7, 3) has been evaluated: -1
C29_Witness ==
    /\ ModEvaluated
    /\ ValueOf(expr.l).i = -7 /\ ValueOf(expr.r).i = 3
    /\ res.ev.v = VInteger(-1)

\* The operator the smart constructor f builds
BuiltBy(f) ==
    CASE f = "and" -> "And"
      [] f = "or" -> "Or"
      [] f = "add" -> "Sum"
      [] f = "mul" -> "Mult"

\* The element x, or its children if it is an op
Unwrapped(op, x) == IF x.op = op THEN x.es ELSE <<x>>

\* The first n elements of xs, each unwrapped, in order
RECURSIVE Spliced(_, _, _)
Spliced(op, xs, n) ==
    IF n = 0 THEN <<>> ELSE Spliced(op, xs, n - 1) \o Unwrapped(op, xs[n])

\* and, or, + or * has been applied to at least two arguments
FlatteningApplied ==
    /\ out # None
    /\ out.f \in {"and", "or", "add", "mul"}
    /\ Len(out.args) >= 2

\* The result is one op over the arguments, unwrapped
SplicedResult(op) ==
    /\ out.r.op = op
    /\ out.r.es = Spliced(op, out.args, Len(out.args))

\* C30: for every argument list xs with at least two elements (including
\* elements built with the raw And constructor), and(xs) returns a single
\* flat And: its children are, in order, the elements of xs with each element
\* that is itself an And replaced by that element's children, and no child of
\* the result is itself an And; the same holds for or with Or and for the
\* binary + and * with Sum and Mult.
C30_FlatResult ==
    FlatteningApplied =>
        /\ SplicedResult(BuiltBy(out.f))
        /\ \A i \in 1..Len(out.r.es) : out.r.es[i].op # BuiltBy(out.f)

\* No argument that is an op has a child that is an op
FlatArguments(op) ==
    \A i \in 1..Len(out.args) :
        out.args[i].op = op => \A j \in 1..Len(out.args[i].es) : out.args[i].es[j].op # op

\* C30 (amended): for every argument list xs with at least two elements,
\* and(xs) returns a single And whose children are, in order, the elements of
\* xs with each element that is itself an And replaced by that element's
\* children; no child of the result is itself an And exactly when no element
\* of xs that is an And has an And among its own children (arguments are
\* unwrapped one level deep); the same holds for or with Or and for the
\* binary + and * with Sum and Mult.
C30_FlatOneLevel ==
    FlatteningApplied =>
        /\ SplicedResult(BuiltBy(out.f))
        /\ (\A i \in 1..Len(out.r.es) : out.r.es[i].op # BuiltBy(out.f))
                <=> FlatArguments(BuiltBy(out.f))

\* and([x, And([a, b])]) has been built: And([x, a, b])
C30_Witness ==
    /\ FlatteningApplied
    /\ out.f = "and"
    /\ Len(out.args) = 2
    /\ out.args[2].op = "And" /\ Len(out.args[2].es) = 2
    /\ out.r.op = "And" /\ Len(out.r.es) = 3
    /\ \A i \in 1..3 : out.r.es[i].op # "And"

\* e.component(index) has been called
ComponentApplied == out # None /\ out.f = "component"

\* The call returned an expression
Returned(r) == "op" \in DOMAIN r

\* C31: the projection smart constructor agrees with the raw constructor: for
\* every well-typed literal Tuple(es) and every index i, component(Tuple(es),
\* i) returns es[i] when i < |es|, and for every e and i the type-check
\* outcome of component(e, i) equals that of Component(i, e), including the
\* MissingComponent outcome when i >= |es|; component itself never fails.
C31_ComponentAgrees ==
    ComponentApplied =>
        /\ Returned(out.r)
        /\ (out.args[1].op = "Tuple" /\ ExprType(out.args[1]).ok
                /\ out.index < Len(out.args[1].es))
                => out.r = out.args[1].es[out.index + 1]
        /\ ExprType(out.r) = ExprType(Component(out.index, out.args[1]))

\* What a smart constructor built and its raw counterpart have been evaluated,
\* the raw expression well-typed and the resolver giving values of the
\* declared types
BuiltEvaluated ==
    /\ res # None
    /\ out # None
    /\ ExprType(RawOf(out.f, out.args)).ok
    /\ EnvWellTyped(RawOf(out.f, out.args), env)

\* C32: smart constructors preserve meaning: for every resolver and all
\* well-typed operands, evaluating the compiled and(xs), or(xs), a + b, a * b,
\* !e and -e gives the same value as evaluating the compiled raw And(xs),
\* Or(xs), Sum([a, b]), Mult([a, b]), Not(e) and Opposite(e), including the
\* empty and one-element lists (and([]) is true, or([]) is false) and with
\* the same left-to-right evaluation order of operands.
C32_SmartPreservesMeaning ==
    BuiltEvaluated =>
        /\ res.smart = res.raw
        /\ (out.f = "and" /\ out.args = <<>>) => res.smart.v = VBoolean(TRUE)
        /\ (out.f = "or" /\ out.args = <<>>) => res.smart.v = VBoolean(FALSE)

\* Every list in the value v, at any depth, has all its elements of the type
\* it carries
RECURSIVE Homogeneous(_)
Homogeneous(v) ==
    CASE v.k = "List" ->
            \A i \in 1..Len(v.vs) : ValType(v.vs[i]) = v.t /\ Homogeneous(v.vs[i])
      [] v.k = "Tuple" -> \A i \in 1..Len(v.vs) : Homogeneous(v.vs[i])
      [] OTHER -> TRUE

\* Every constant of the expression e is homogeneous
RECURSIVE ConstantsHomogeneous(_)
ConstantsHomogeneous(e) ==
    CASE e.op = "Const" -> Homogeneous(e.val)
      [] e.op = "Var" -> TRUE
      [] e.op \in NaryOps -> \A i \in 1..Len(e.es) : ConstantsHomogeneous(e.es[i])
      [] e.op \in UnaryOps \cup {"Component"} -> ConstantsHomogeneous(e.e)
      [] e.op \in BinaryOps -> ConstantsHomogeneous(e.l) /\ ConstantsHomogeneous(e.r)

\* C33: list homogeneity is an invariant of evaluation: if every list
\* constant in an expression and every list value supplied by the resolver
\* has all its elements of the list's carried element type, then every list
\* value returned by evaluating the compiled expression (through any nesting
\* of Append, Truncate, Tuple and Component) also has all its elements of its
\* carried element type.
C33_ListsHomogeneous ==
    ( /\ res # None
      /\ ConstantsHomogeneous(expr)
      /\ \A v \in Vars : Homogeneous(env[v])
      /\ ~IsPanic(res.ev.v) )
    => Homogeneous(res.ev.v)

\* A list the resolver supplied has been appended to: two elements of its type
C33_Witness ==
    /\ res # None
    /\ expr.op = "Append" /\ expr.l.op = "Var"
    /\ res.ev.v.k = "List" /\ Len(res.ev.v.vs) = 2
    /\ Homogeneous(res.ev.v)

\* The If on top of the stack of x
IfOnTop(x) == TopIs(x.stack, {"if"})

\* The executable child the step has pushed into the If that is on top of
\* the stack after it: <raise/>, <send/> or <assign/> read inside the If, or
\* a <send> or an <if> closed inside it
ChildAttached ==
    /\ xml'.result = Parsing
    /\ IfOnTop(xml')
    /\ \/ xml'.buf.ev = "Empty" /\ xml'.buf.name \in {"raise", "send", "assign"}
       \/ xml'.buf.ev = "End" /\ xml'.buf.name \in {"send", "if"}

\* The If into which the step pushes, as it was before the step
ParentIf == xml.stack[Len(xml'.stack)]

\* The branch the marker opened has grown by the child, the other branches
\* are as they were
AttachedToMarked(before, after, child) ==
    IF before.marker = 0
    THEN after.else = Append(before.else, child) /\ after.elif = before.elif
    ELSE /\ after.else = before.else
         /\ after.elif = [before.elif EXCEPT ![before.marker] = Append(@, child)]

\* C34: inside an <if>, every executable child is attached, in document
\* order, to the branch opened by the nearest preceding marker (<if>, <elif>
\* or <else>): children after an <elif> go to that elif's branch, children
\* after <else> go to the else branch, a second <else> is an error, and an
\* <elif> after <else> never leaves an elif branch whose own children were
\* put into the else branch.
C34_NearestMarker ==
    [][ /\ ChildAttached => AttachedToMarked(ParentIf, Top(xml'.stack), xml'.buf.name)
        /\ ( /\ xml.result = Parsing /\ IfOnTop(xml) /\ Top(xml.stack).else_flag
             /\ xml'.buf.ev = "Empty" /\ xml'.buf.name = "else" )
           => xml'.result.k = "Err" ]_vars

\* The step reads the end tag of the tag on top of the stack
EndTagMatched ==
    /\ xml.result = Parsing
    /\ xml'.buf.ev = "End"
    /\ TopIs(xml.stack, {xml'.buf.name})

\* C35: in the SCXML FSM parser every element accepted and pushed on its
\* start tag is attached to its parent without error when its matching end
\* tag arrives, and the branch marked unreachable ("All tags should be
\* considered") is never executed; in particular a <send> or an <if>
\* accepted because some ancestor is executable is attachable to its direct
\* parent.
C35_AcceptedIsAttached ==
    [][ /\ EndTagMatched => xml'.result.k \in {"Parsing", "Ok"}
        /\ xml'.result.e # "All tags should be considered" ]_vars

\* C36: for every sequence of XML events, the XML declaration, CDATA,
\* processing instructions and DOCTYPE included, the parser of the model
\* file and the FSM parser finish by returning Ok or Err to their caller:
\* neither ever aborts the process.
C36_ParsersReturn ==
    xml.parser \in {XmlParser, FsmParser} => xml.result.k \in {"Parsing", "Ok", "Err"}

\* The step of a top-level model parser reads the end tag that bears the
\* name of the tag on top of its stack
SameNameEndTag(parser) ==
    /\ xml.parser = parser
    /\ xml.result = Parsing
    /\ xml'.buf.ev = "End"
    /\ TopIs(xml.stack, {xml'.buf.name})

\* The end tag has popped the tag and the parser goes on
PoppedSuccessfully == xml'.result = Parsing /\ xml'.stack = Popped(xml.stack)

\* C37: for every kind of tag a top-level model parser pushes on a start
\* tag, the end tag of the same name pops it successfully: a well-nested
\* document of recognised tags in their permitted positions never yields
\* UnexpectedEndTag.
C37_EndTagPops ==
    [][ \A parser \in {XmlParser, ScanParser} :
            SameNameEndTag(parser) => PoppedSuccessfully ]_vars

\* The states of the Scxml at the bottom of the stack
StatesOf(x) == IF x.stack = <<>> THEN {} ELSE x.stack[1].states

\* The step reads the end of a <state> (its end tag, or the empty tag) of
\* the given id under the Scxml
StateRead(id) ==
    /\ xml.result = Parsing
    /\ \/ /\ xml'.buf.ev = "Empty" /\ xml'.buf.name = "state" /\ xml'.buf.id = id
          /\ "id" \in xml'.buf.attrs
          /\ TopIs(xml.stack, {"scxml"})
       \/ /\ xml'.buf.ev = "End" /\ xml'.buf.name = "state"
          /\ TopIs(xml.stack, {"state"}) /\ Top(xml.stack).id = id

\* A state of that id has been parsed before
IdUsed(id) == \E s \in StatesOf(xml) : s.id = id

\* C38: a second <state> whose id is already used by an earlier <state> of
\* the same <scxml> is reported as an error; after any sequence of state
\* declarations the parsed FSM never loses a previously parsed state (its
\* transitions, onentry and onexit) by replacement.
C38_StateIdsUnique ==
    [][ /\ \A id \in StateIds : StateRead(id) /\ IdUsed(id) => xml'.result.k = "Err"
        /\ xml'.stack # <<>> => StatesOf(xml) \subseteq StatesOf(xml') ]_vars

====
